---------------------------- MODULE Spec2Model ----------------------------
(***************************************************************************)
(* The autotrading decision engine (hook useAutoTrader), its risk manager  *)
(* and the host page that drives it from a timer and owns the position     *)
(* store.                                                                  *)
(*                                                                         *)
(* Units.  Prices are integers in millionths (1.1000 is 1100000), so that  *)
(* the five-decimal grid of the feed, the pip (0.0001 = 100) and values    *)
(* off the grid are all representable.  Money is in thousandths of a       *)
(* dollar.  Volumes are in hundredths of a lot.  Time is in milliseconds.  *)
(*                                                                         *)
(* The indicator pipeline (candles -> indicators -> strategy detectors ->  *)
(* aggregator, and the continuation analyzer's five opinions) is a         *)
(* function of the floating-point candle history; in the engine's state    *)
(* machine its verdicts are inputs drawn from SignalOutcomes and           *)
(* AnalysisOutcomes at each call.  The candle buffer is kept by its length,*)
(* which is what the engine's own guards read.                             *)
(*                                                                         *)
(* A tick runs to completion (JavaScript is single threaded): it is        *)
(* modelled as the steps TickBegin, LifecycleStep (one loop iteration per  *)
(* position of the captured snapshot), RiskStep and Render, and no other   *)
(* action is enabled between TickBegin and Render.                         *)
(***************************************************************************)
EXTENDS Integers, Sequences, FiniteSets, TLC

(***************************************************************************)
(* Bounds of the model: callbacks of the host timer, position ids, toggles *)
(* of the engine, and the callbacks up to which the user toggles, closes   *)
(* and places orders.                                                      *)
(***************************************************************************)
MaxTicks == 5
MaxPositions == 3
MaxToggles == 2
ToggleTicks == 2
CloseTicks == 2
ManualOrderTicks == 1
MaxManualOrders == 1

(***************************************************************************)
(* Program constants.                                                      *)
(***************************************************************************)
RiskPercent == 1
MaxOpenTrades == 3
TakeProfitPips == 30
StopLossPips == 20
TrailingStopPips == 15
CooldownMs == 30000
ReentryCooldownMs == 2000
MaxDailyLoss == 500000
MaxDrawdownPercent == 10
MinStrategyConfidence == 60
SmartCashOutMinProfit == 5000
SmartCashOutRetracePercent == 50
SmartCashOutConfidence == 70
SmartLossRecoveryConfidence == 70
SmartLossMaxLossPercent == 50
LogCap == 99
CandleCap == 200
MinAnalysisCandles == 30
LifecycleEvery == 2
ScanEvery == 3
RiskLogEvery == 30
IntervalMs == 1500
Spread == 150
InitialBalance == 10000000
InitialEquity == 10000000
MaxEngineLot == 100
MinLot == 1
MaxMartingaleSteps == 3
TrailGrid == 10

(***************************************************************************)
(* Inputs of the model: the pair universe, the feed's price levels, the    *)
(* orders a user types, the verdicts of the indicator pipeline.            *)
(***************************************************************************)
Pairs == <<"EURUSD", "GBPUSD">>
Symbols == {Pairs[i] : i \in 1..Len(Pairs)}
Sides == {"BUY", "SELL"}
Undef == -1

InitBid == [s \in Symbols |-> IF s = "EURUSD" THEN 1099850 ELSE 1265400]
BidLevels ==
  [s \in Symbols |->
     IF s = "EURUSD" THEN {1098500, 1099000, 1100400, 1102500, 1103000}
     ELSE {1265400}]

ManualVolumes == {50}
ManualSymbols == {"EURUSD"}
ManualStopOffsets == {1000}
ManualTargetOffsets == {3000}

SignalOutcomes ==
  { [signal |-> "NONE", confidence |-> 0],
    [signal |-> "BUY", confidence |-> 75],
    [signal |-> "SELL", confidence |-> 75] }

AnalysisOutcomes ==
  { [willContinue |-> TRUE, confidence |-> 90],
    [willContinue |-> TRUE, confidence |-> 50],
    [willContinue |-> FALSE, confidence |-> 80] }

\* State after the engine ran WarmTicks ticks with no signal and no position:
\* every third tick scanned every pair once.
WarmTicks == 115
StartTime == 1000000

(***************************************************************************)
(* Arithmetic helpers.                                                     *)
(***************************************************************************)
Max(a, b) == IF a >= b THEN a ELSE b
Min(a, b) == IF a <= b THEN a ELSE b
Abs(a) == IF a >= 0 THEN a ELSE -a

\* Math.round(n / d) for d > 0: the nearest integer, halves towards +infinity.
RoundDiv(n, d) == (2 * n + d) \div (2 * d)

\* Math.round(x / m) * m: x rounded to the grid of step m.
RoundTo(x, m) == RoundDiv(x, m) * m

IsJPY(symbol) == symbol \in {"USDJPY", "EURJPY", "GBPJPY"}

\* pipVal / pipValue: the pip of a symbol, in millionths.
PipValue(symbol) ==
  IF symbol = "XAUUSD" THEN 1000000 ELSE IF IsJPY(symbol) THEN 10000 ELSE 100

\* pipDollarValue: dollars per pip per lot.
PipDollarValue(symbol) ==
  IF symbol = "XAUUSD" THEN 100 ELSE IF IsJPY(symbol) THEN 1000 ELSE 10

\* getDecimals, as the step of the symbol's price grid in millionths.
GridStep(symbol) ==
  IF symbol = "XAUUSD" THEN 10000 ELSE IF IsJPY(symbol) THEN 1000 ELSE 10

roundToSymbol(symbol, price) == RoundTo(price, GridStep(symbol))

\* calculateProfit: pips * pipDollarValue * volume, in thousandths of a dollar
\* (volume is in hundredths of a lot, hence the factor 10).
calculateProfit(position, currentPrice) ==
  LET diff == IF position.type = "BUY"
              THEN currentPrice - position.openPrice
              ELSE position.openPrice - currentPrice
  IN (diff * PipDollarValue(position.symbol) * position.volume * 10)
       \div PipValue(position.symbol)


(***************************************************************************)
(* The strategy aggregator, detectMultiStrategySignal.  The four detectors *)
(* are functions of the candles; what each returned on the candles at hand *)
(* is the map detected.  A confidence is kept in 1/ConfidenceScale of a    *)
(* point, so that the mean of up to four whole confidences is exact.       *)
(***************************************************************************)
ConfidenceScale == 12

StrategyNames == <<"trend", "mean_reversion", "breakout", "momentum">>
KnownStrategies == {StrategyNames[i] : i \in 1..Len(StrategyNames)}

\* The confidence each detector attaches to a BUY or SELL.
DetectorConfidence(name) ==
  CASE name = "trend" -> 75
    [] name = "mean_reversion" -> 70
    [] name = "breakout" -> 65
    [] name = "momentum" -> 70

SignalOf(name, signal) ==
  [ signal |-> signal, strategy |-> name,
    confidence |-> IF signal = "NONE" THEN 0 ELSE DetectorConfidence(name) * ConfidenceScale ]

\* A faulty filter: the strategy's minimum is not looked at.
SurvivesUnfiltered(signal, strategy) == signal.signal # "NONE"

\* signal.signal !== 'NONE' && signal.confidence >= strategy.minConfidence
Survives(signal, strategy) ==
  /\ signal.signal # "NONE"
  /\ signal.confidence >= strategy.minConfidence * ConfidenceScale

\* The loop over the strategies: the results pushed to signals, in order.
RECURSIVE CollectSignals(_, _, _)
CollectSignals(strats, detected, i) ==
  IF i > Len(strats) THEN << >>
  ELSE LET strategy == strats[i]
           rest == CollectSignals(strats, detected, i + 1)
       IN IF ~strategy.enabled THEN rest
          ELSE IF strategy.name \notin KnownStrategies THEN rest
          ELSE IF Survives(detected[strategy.name], strategy)
               THEN << detected[strategy.name] >> \o rest
               ELSE rest

\* reduce((sum, s) => sum + s.confidence, 0)
RECURSIVE SumConfidence(_)
SumConfidence(signals) ==
  IF signals = << >> THEN 0 ELSE Head(signals).confidence + SumConfidence(Tail(signals))

\* A faulty branch order: a tie goes to BUY.
BuyWinsTies(buys, sells) == buys >= sells

\* buySignals.length > sellSignals.length
BuyWins(buys, sells) == buys > sells

detectMultiStrategySignal(strats, detected) ==
  LET signals == CollectSignals(strats, detected, 1)
      buySignals == SelectSeq(signals, LAMBDA s : s.signal = "BUY")
      sellSignals == SelectSeq(signals, LAMBDA s : s.signal = "SELL")
  IN IF Len(signals) = 0
     THEN [signal |-> "NONE", confidence |-> 0, strategy |-> "trend"]
     ELSE IF BuyWins(Len(buySignals), Len(sellSignals))
          THEN [ signal |-> "BUY", strategy |-> buySignals[1].strategy,
                 confidence |-> SumConfidence(buySignals) \div Len(buySignals) ]
     ELSE IF Len(sellSignals) > Len(buySignals)
          THEN [ signal |-> "SELL", strategy |-> sellSignals[1].strategy,
                 confidence |-> SumConfidence(sellSignals) \div Len(sellSignals) ]
     ELSE [signal |-> "NONE", confidence |-> 0, strategy |-> "trend"]

(***************************************************************************)
(* The trend detector and its indicators, on the closes of the candles (in *)
(* millionths).  An average is kept in 1/EmaScale of a millionth.  On a    *)
(* series whose close moves by the same even step on every candle each     *)
(* division below is exact; on the other series of the model the quotients *)
(* are cut to that grid, far below the distances the detector compares.    *)
(***************************************************************************)
EmaScale == 100
RsiPeriod == 14
FastPeriod == 20
SlowPeriod == 50

\* candles.slice(0, period).reduce((sum, c) => sum + c.close, 0) / period,
\* summed as distances from the first close.
RECURSIVE SumFrom(_, _, _)
SumFrom(cl, base, n) == IF n = 0 THEN 0 ELSE (cl[n] - base) + SumFrom(cl, base, n - 1)

SeedAverage(cl, period) ==
  cl[1] * EmaScale + (SumFrom(cl, cl[1], period) * EmaScale) \div period

\* The loop of calculateEMA: ema = (close - ema) * multiplier + ema, with
\* multiplier = 2 / (period + 1).
RECURSIVE FoldEMA(_, _, _, _)
FoldEMA(cl, period, i, ema) ==
  IF i > Len(cl) THEN ema
  ELSE FoldEMA(cl, period, i + 1,
               ema + ((cl[i] * EmaScale - ema) * 2) \div (period + 1))

calculateEMA(cl, period) ==
  IF Len(cl) < period
  THEN (IF cl = << >> THEN 0 ELSE cl[Len(cl)] * EmaScale)
  ELSE FoldEMA(cl, period, period + 1, SeedAverage(cl, period))

\* The loop of calculateRSI over the last `period` changes: the sums of the
\* rises and of the falls.
RECURSIVE SumChanges(_, _, _, _)
SumChanges(cl, i, gains, losses) ==
  IF i > Len(cl) THEN [gains |-> gains, losses |-> losses]
  ELSE LET change == cl[i] - cl[i - 1]
       IN IF change > 0 THEN SumChanges(cl, i + 1, gains + change, losses)
          ELSE SumChanges(cl, i + 1, gains, losses - change)

\* A faulty RSI: a series without a fall reads 50.
calculateRSINeutral(cl, period) ==
  LET sums == IF Len(cl) < period + 1 THEN [gains |-> 1, losses |-> 1]
              ELSE SumChanges(cl, Len(cl) - period + 1, 0, 0)
  IN IF sums.losses = 0 THEN [gains |-> 1, losses |-> 1] ELSE sums

\* calculateRSI, as the pair of sums it is the quotient of:
\* 100 - 100 / (1 + gains / losses) is 100 * gains / (gains + losses), it is 100
\* when there is no fall, and 50 (equal sums) on fewer than period + 1 candles.
calculateRSI(cl, period) ==
  IF Len(cl) < period + 1 THEN [gains |-> 1, losses |-> 1]
  ELSE SumChanges(cl, Len(cl) - period + 1, 0, 0)

\* rsi > x and rsi < x for the pair of sums.
RsiAbove(rsi, x) ==
  IF rsi.losses = 0 THEN 100 > x ELSE 100 * rsi.gains > x * (rsi.gains + rsi.losses)
RsiBelow(rsi, x) ==
  IF rsi.losses = 0 THEN 100 < x ELSE 100 * rsi.gains < x * (rsi.gains + rsi.losses)

detectTrendSignal(cl) ==
  IF Len(cl) < SlowPeriod
  THEN [signal |-> "NONE", confidence |-> 0, strategy |-> "trend"]
  ELSE LET ema20 == calculateEMA(cl, FastPeriod)
           ema50 == calculateEMA(cl, SlowPeriod)
           currentPrice == cl[Len(cl)] * EmaScale
           rsi == calculateRSI(cl, RsiPeriod)
       IN IF currentPrice > ema20 /\ ema20 > ema50 /\ RsiAbove(rsi, 40) /\ RsiBelow(rsi, 70)
          THEN [signal |-> "BUY", confidence |-> 75, strategy |-> "trend"]
          ELSE IF currentPrice < ema20 /\ ema20 < ema50
                  /\ RsiAbove(rsi, 30) /\ RsiBelow(rsi, 60)
          THEN [signal |-> "SELL", confidence |-> 75, strategy |-> "trend"]
          ELSE [signal |-> "NONE", confidence |-> 0, strategy |-> "trend"]

\* The candle updateCandlesFromTick builds for close i of a series: it opens at
\* the previous close, and its high and low are the larger and the smaller of
\* its open and its close.
CandleOpen(cl, i) == IF i = 1 THEN cl[1] ELSE cl[i - 1]
CandleHigh(cl, i) == Max(CandleOpen(cl, i), cl[i])
CandleLow(cl, i) == Min(CandleOpen(cl, i), cl[i])

AtrPeriod == 14
BreakoutMinCandles == 20
BreakoutLookback == 10

TrueRange(cl, i) ==
  Max(CandleHigh(cl, i) - CandleLow(cl, i),
      Max(Abs(CandleHigh(cl, i) - cl[i - 1]), Abs(CandleLow(cl, i) - cl[i - 1])))

RECURSIVE SumTrueRange(_, _, _)
SumTrueRange(cl, i, last) ==
  IF i > last THEN 0 ELSE TrueRange(cl, i) + SumTrueRange(cl, i + 1, last)

\* calculateATR times period: the sum of the true ranges of the candles at
\* (0-based) 1 .. period, the oldest of the series.
calculateATR(cl, period) ==
  IF Len(cl) < period + 1 THEN 0 ELSE SumTrueRange(cl, 2, period + 1)

RECURSIVE RecentHighs(_, _, _)
RecentHighs(cl, i, last) ==
  IF i = last THEN CandleHigh(cl, i)
  ELSE Max(CandleHigh(cl, i), RecentHighs(cl, i + 1, last))

RECURSIVE RecentLows(_, _, _)
RecentLows(cl, i, last) ==
  IF i = last THEN CandleLow(cl, i)
  ELSE Min(CandleLow(cl, i), RecentLows(cl, i + 1, last))

\* detectBreakoutSignal; move > atr * 0.5 is 2 * period * move > atr * period.
detectBreakoutSignal(cl) ==
  IF Len(cl) < BreakoutMinCandles
  THEN [signal |-> "NONE", confidence |-> 0, strategy |-> "breakout"]
  ELSE LET n == Len(cl)
           recentHighs == RecentHighs(cl, n - BreakoutLookback, n - 1)
           recentLows == RecentLows(cl, n - BreakoutLookback, n - 1)
           atr == calculateATR(cl, AtrPeriod)
       IN IF cl[n] > recentHighs /\ 2 * AtrPeriod * (cl[n] - cl[n - 1]) > atr
          THEN [signal |-> "BUY", confidence |-> 65, strategy |-> "breakout"]
          ELSE IF cl[n] < recentLows /\ 2 * AtrPeriod * (cl[n - 1] - cl[n]) > atr
          THEN [signal |-> "SELL", confidence |-> 65, strategy |-> "breakout"]
          ELSE [signal |-> "NONE", confidence |-> 0, strategy |-> "breakout"]

(***************************************************************************)
(* State.                                                                  *)
(***************************************************************************)
VARIABLES
  config,            \* AutoTraderConfig: the flags that vary (numbers are the defaults)
  logs,              \* AutoTradeLog[], oldest first
  lastTradeTime,     \* ref: time of the engine's last entry
  lastWinTime,       \* ref: time of the last TP_HIT
  tickRef,           \* ref: tick counter
  consecutiveWins,   \* ref
  positionTrackers,  \* Map id -> PositionTracker
  trailingBest,      \* Map id -> best price seen
  candleSeries,      \* Map symbol -> number of candles buffered
  risk,              \* riskManager: dailyStats, martingaleStep, lastTradeResult
  pairs,             \* host state: the rendered quotes, symbol -> [bid, ask]
  positions,         \* host state: the rendered open positions (the position store)
  balance,           \* host state: account.balance
  pending,           \* host: state updaters queued since the last render
  newPairs,          \* host: quotes generated by the running interval callback
  clock,             \* Date.now()
  pc,                \* where the running interval callback is
  idx,               \* index of the lifecycle loop in the positions snapshot
  riskAllowed,       \* result of canTrade in the running tick ("none" before the call)
  lastEval,          \* history: id and checks that acted in the latest loop iteration
  recorded,          \* history: id -> number of recordTradeResult calls for it
  nextId,            \* number of position ids handed out, plus one
  fired,             \* number of interval callbacks run
  toggles            \* number of toggleEnabled calls

\* The indicator library and the risk manager on their own, as their callers
\* drive them.
VARIABLES
  strategies,        \* StrategyConfig[] handed to detectMultiStrategySignal
  detections,        \* strategy name -> SignalResult of its detector on the candles
  signalResult,      \* SignalResult of detectMultiStrategySignal
  closes,            \* CandleData[]: the close of each candle, oldest first
  trendSignal,       \* SignalResult of detectTrendSignal on closes
  breakoutSignal,    \* SignalResult of detectBreakoutSignal on the same candles
  riskConfig,        \* riskManager.config
  today,             \* the calendar date, in days
  lossRun,           \* history: losing trades recorded since the last winning one
  riskVerdict,       \* the latest canTrade call: what it read and returned
  lotSize,           \* the latest calculateLotSize call: arguments and result
  opinions,          \* analyzeMarketForContinuation: the side held and what each indicator reads
  continuation,          \* the value analyzeMarketForContinuation returned for them
  series,            \* candleSeries.get(symbol): the candles updateCandlesFromTick keeps
  feed               \* the prices the price loop hands to updateCandlesFromTick, in turn

pageVars ==
  << config, logs, lastTradeTime, lastWinTime, tickRef, consecutiveWins,
     positionTrackers, trailingBest, candleSeries, risk, pairs, positions,
     balance, pending, newPairs, clock, pc, idx, riskAllowed, lastEval,
     recorded, nextId, fired, toggles >>

aggregatorVars == << strategies, detections, signalResult >>
trendVars == << closes, trendSignal, breakoutSignal >>
riskVars == << riskConfig, today, lossRun, riskVerdict, lotSize >>
analyzerVars == << opinions, continuation >>
candleVars == << series, feed >>

vars == << pageVars, aggregatorVars, trendVars, riskVars, analyzerVars, candleVars >>

(***************************************************************************)
(* Maps (JavaScript Map) as functions with a varying domain.               *)
(***************************************************************************)
EmptyMap == [k \in {} |-> 0]
MapSet(f, k, v) == [x \in (DOMAIN f) \cup {k} |-> IF x = k THEN v ELSE f[x]]
MapDelete(f, k) == [x \in (DOMAIN f) \ {k} |-> f[x]]
MapHas(f, k) == k \in DOMAIN f

(***************************************************************************)
(* Risk manager.                                                           *)
(***************************************************************************)
UseMartingale == FALSE
SessionLimit == FALSE

\* DEFAULT_RISK_CONFIG, which is also what the engine's effect writes with
\* updateConfig from DEFAULT_CONFIG.  Money in thousandths of a dollar.
DEFAULT_RISK_CONFIG ==
  [ riskPercent |-> RiskPercent, stopLossPips |-> StopLossPips,
    maxDailyLoss |-> MaxDailyLoss, maxDrawdownPercent |-> MaxDrawdownPercent,
    volatilityAdjustment |-> FALSE, atrMultiplier |-> 2,
    useMartingale |-> UseMartingale, martingaleMultiplier |-> 2,
    maxMartingaleSteps |-> MaxMartingaleSteps,
    sessionLimit |-> SessionLimit, sessionStartHour |-> 8, sessionEndHour |-> 20,
    maxTradesPerSession |-> 10, newsFilter |-> FALSE ]

\* initDailyStats on the calendar date `date`, with the manager's two fields
\* martingaleStep and lastTradeResult beside the statistics.
initDailyStatsOn(date) ==
  [ date |-> date, profit |-> 0, trades |-> 0, wins |-> 0, losses |-> 0,
    peakEquity |-> InitialEquity, currentEquity |-> InitialEquity,
    sessionTrades |-> 0, martingaleStep |-> 0, lastTradeResult |-> "null" ]

initDailyStats == initDailyStatsOn(0)

\* The first rule of canTrade: the daily loss limit, boundary included.
DailyLossReached(rc, r) == r.profit <= -rc.maxDailyLoss

\* The second rule: (peakEquity - currentEquity) / peakEquity * 100 >= maxDrawdownPercent.
DrawdownReached(rc, r, currentEquity) ==
  (r.peakEquity - currentEquity) * 100 >= rc.maxDrawdownPercent * r.peakEquity

\* The third rule, under sessionLimit: the hour of the day and the session's trades.
OutsideSession(rc, hour) == hour < rc.sessionStartHour \/ hour >= rc.sessionEndHour
SessionTradesReached(rc, r) == r.sessionTrades >= rc.maxTradesPerSession

\* isNewsTime
isNewsTime == FALSE

\* A faulty limit: the boundary itself is not a breach.
canTradeBelowLimit(rc, r, currentEquity, hour) ==
  IF r.profit < -rc.maxDailyLoss THEN [allowed |-> FALSE, reason |-> "daily loss"]
  ELSE [allowed |-> TRUE, reason |-> ""]

canTrade(rc, r, currentEquity, hour) ==
  IF DailyLossReached(rc, r) THEN [allowed |-> FALSE, reason |-> "daily loss"]
  ELSE IF DrawdownReached(rc, r, currentEquity)
       THEN [allowed |-> FALSE, reason |-> "drawdown"]
  ELSE IF rc.sessionLimit /\ OutsideSession(rc, hour)
       THEN [allowed |-> FALSE, reason |-> "session hours"]
  ELSE IF rc.sessionLimit /\ SessionTradesReached(rc, r)
       THEN [allowed |-> FALSE, reason |-> "session trades"]
  ELSE IF rc.newsFilter /\ isNewsTime
       THEN [allowed |-> FALSE, reason |-> "news"]
  ELSE [allowed |-> TRUE, reason |-> ""]

recordTradeResult(rc, r, profit) ==
  LET step == IF profit > 0 THEN 0
              ELSE IF rc.useMartingale
                   THEN Min(r.martingaleStep + 1, rc.maxMartingaleSteps)
              ELSE r.martingaleStep
      equity == r.currentEquity + profit
  IN [ r EXCEPT
         !.lastTradeResult = IF profit > 0 THEN "win" ELSE "loss",
         !.martingaleStep = step,
         !.trades = @ + 1,
         !.wins = IF profit > 0 THEN @ + 1 ELSE @,
         !.losses = IF profit > 0 THEN @ ELSE @ + 1,
         !.profit = @ + profit,
         !.currentEquity = equity,
         !.peakEquity = Max(@, equity),
         !.sessionTrades = @ + 1 ]

\* resetDailyStats: fresh statistics if the stored date is not today's;
\* martingaleStep and lastTradeResult are not part of the statistics.
resetDailyStats(r, date) ==
  IF r.date # date
  THEN [ initDailyStatsOn(date) EXCEPT !.martingaleStep = r.martingaleStep,
                                       !.lastTradeResult = r.lastTradeResult ]
  ELSE r

\* new Date().getHours() at the time `time`.
HourOf(time) == (time \div 3600000) % 24

(***************************************************************************)
(* calculateLotSize.  The lot is a quotient of doubles; it is computed     *)
(* here as the fraction num / den of integers, in hundredths of a lot, and *)
(* a quotient 0 / 0 is the NaN of the program.  Balances are in thousandths*)
(* of a dollar and whole cents; prices in millionths.                      *)
(***************************************************************************)
NaN == -2

Sign(x) == IF x > 0 THEN 1 ELSE IF x < 0 THEN -1 ELSE 0

RECURSIVE Power(_, _)
Power(base, n) == IF n = 0 THEN 1 ELSE base * Power(base, n - 1)

\* getMaxLotSize, in hundredths of a lot.
getMaxLotSize(symbol) == IF symbol = "XAUUSD" THEN 1000 ELSE 10000

\* useMartingale && lastTradeResult === 'loss' && martingaleStep < maxMartingaleSteps
MartingaleApplies(rc, r) ==
  rc.useMartingale /\ r.lastTradeResult = "loss" /\ r.martingaleStep < rc.maxMartingaleSteps

\* riskAmount / (accountBalance * riskPercent / 100): the factor the
\* martingale branch multiplies the risked amount by.
RiskFactor(rc, r) ==
  IF MartingaleApplies(rc, r) THEN Power(rc.martingaleMultiplier, r.martingaleStep) ELSE 1

\* estimateATR, in millionths: basePrice * volatility * 0.1, basePrice being
\* 1.0 when no price is given.
estimateATR(symbol, price) ==
  LET basePrice == IF price = Undef \/ price = 0 THEN 1000000 ELSE price
  IN IF IsJPY(symbol) THEN basePrice \div 20
     ELSE IF symbol = "XAUUSD" THEN basePrice
     ELSE basePrice \div 2000

\* lotSize before the limits, as [num, den] in hundredths of a lot.  For a
\* pair that is neither gold nor a yen pair pipDollarValue is
\* 10 * (accountBalance / 10000): the balance divides out of the quotient,
\* only its sign and a zero stay.  The ATR cache is empty: nothing calls updateATR.
RawLot(rc, r, accountBalance, symbol, stopLossPips, currentPrice) ==
  LET cents == accountBalance \div 10
      factor == rc.riskPercent * RiskFactor(rc, r)
      atr == estimateATR(symbol, currentPrice)
      byATR == rc.volatilityAdjustment /\ atr > 0
      volatilityStopLoss == atr * rc.atrMultiplier
  IN IF symbol = "XAUUSD"
     THEN IF byATR THEN [num |-> cents * factor * 100, den |-> volatilityStopLoss]
          ELSE [num |-> cents * factor, den |-> 100 * stopLossPips * 100]
     ELSE IF IsJPY(symbol)
     THEN IF byATR THEN [num |-> cents * factor * 10, den |-> volatilityStopLoss]
          ELSE [num |-> cents * factor, den |-> 100 * stopLossPips * 1000]
     ELSE IF byATR
          THEN [num |-> Sign(cents) * factor * 10000000,
                den |-> Sign(cents) * (volatilityStopLoss \div 100)]
          ELSE [num |-> Sign(cents) * factor * 1000, den |-> Sign(cents) * stopLossPips]

\* Math.round(Math.max(0.01, Math.min(lotSize, max)) * 100) / 100, in
\* hundredths of a lot: Math.min and Math.max hand a NaN on.
ApplyLimits(num, den, maxLot) ==
  IF den = 0 THEN (IF num = 0 THEN NaN ELSE IF num > 0 THEN maxLot ELSE MinLot)
  ELSE IF Sign(num) * Sign(den) <= 0 THEN MinLot
  ELSE IF Abs(num) <= Abs(den) THEN MinLot
  ELSE IF Abs(num) \div Abs(den) >= maxLot THEN maxLot
  ELSE RoundDiv(Abs(num), Abs(den))

calculateLotSize(rc, r, accountBalance, symbol, stopLossPips, currentPrice) ==
  LET lot == RawLot(rc, r, accountBalance, symbol, stopLossPips, currentPrice)
  IN ApplyLimits(lot.num, lot.den, getMaxLotSize(symbol))

(***************************************************************************)
(* The engine's working state, threaded through one step of a tick.        *)
(***************************************************************************)
EngineState ==
  [ trackers |-> positionTrackers, best |-> trailingBest, logs |-> logs,
    lastTradeTime |-> lastTradeTime, lastWinTime |-> lastWinTime,
    wins |-> consecutiveWins, candles |-> candleSeries, risk |-> risk,
    pending |-> pending, recorded |-> recorded, nextId |-> nextId,
    applied |-> {}, opened |-> FALSE, removed |-> 0, asked |-> FALSE,
    cashAsked |-> FALSE ]

LogEntry(action, symbol, type, price, profit) ==
  [action |-> action, symbol |-> symbol, type |-> type, price |-> price,
   profit |-> profit]

\* slice(-n): the last n elements.
LastN(s, n) == IF Len(s) <= n THEN s ELSE SubSeq(s, Len(s) - n + 1, Len(s))

\* A faulty addLog: it never drops an entry.
addLogUncapped(e, entry) == [e EXCEPT !.logs = Append(@, entry)]

\* addLog: setLogs(prev => [...prev.slice(-99), entry]).
addLog(e, entry) == [e EXCEPT !.logs = Append(LastN(@, LogCap), entry)]

\* updateCandlesFromTick: [...series, next].slice(-200), by length.
updateCandlesFromTick(e, symbol) ==
  [e EXCEPT !.candles[symbol] = Min(@ + 1, CandleCap)]

\* next, the candle updateCandlesFromTick builds from a tick at second `now`
\* with bid `price`; `built` is history: the number of the call that built it.
NextCandle(s, symbol, now, price, built) ==
  LET open == IF s # << >> THEN s[Len(s)].close ELSE price
      high == Max(open, price)
      low == Min(open, price)
  IN  [ time |-> now,
        open |-> roundToSymbol(symbol, open),
        high |-> roundToSymbol(symbol, high),
        low |-> roundToSymbol(symbol, low),
        close |-> roundToSymbol(symbol, price),
        built |-> built ]

\* A faulty buffer: it keeps the oldest candles.
UpdatedOldest(s, symbol, now, price, built) ==
  SubSeq(Append(s, NextCandle(s, symbol, now, price, built)), 1,
         Min(Len(s) + 1, CandleCap))

\* updated = [...series, next].slice(-200)
Updated(s, symbol, now, price, built) ==
  LastN(Append(s, NextCandle(s, symbol, now, price, built)), CandleCap)

\* getSignal: appends a candle for the pair, then reads the strategies; the
\* verdict is the input `outcome`.
getSignal(e, symbol) == updateCandlesFromTick(e, symbol)

\* candles && candles.length > 30
EnoughCandles(e, symbol) == e.candles[symbol] > MinAnalysisCandles

\* pairs.find(p => p.symbol === pos.symbol)
HasPair(symbol) == symbol \in Symbols

\* onClosePosition(id) / onPlaceOrder(position): queued state updaters.
onClosePosition(e, id) ==
  [e EXCEPT !.pending = Append(@, [kind |-> "close", id |-> id])]
onPlaceOrder(e, position) ==
  [e EXCEPT !.pending = Append(@, [kind |-> "place", position |-> position])]

\* riskManager.recordTradeResult(profit), with the history of the position
\* the call was made for.
RecordFor(e, id, profit) ==
  [e EXCEPT !.risk = recordTradeResult(riskConfig, @, profit),
            !.recorded = MapSet(@, id, (IF MapHas(@, id) THEN @[id] ELSE 0) + 1)]

\* A faulty delete: only the trailing peak is deleted.
DeleteTrailingOnly(e, id) == [e EXCEPT !.best = MapDelete(@, id)]

\* positionTrackers.delete(id); trailingBest.delete(id).  removed counts the
\* tracker entries the delete found.
DeleteTracking(e, id) ==
  [e EXCEPT !.trackers = MapDelete(@, id), !.best = MapDelete(@, id),
            !.removed = @ + (IF MapHas(e.trackers, id) THEN 1 ELSE 0)]

Mark(e, check) == [e EXCEPT !.applied = @ \cup {check}]


(***************************************************************************)
(* tryOpenTrade.  It reads the closure's snapshot: positions, pairs and    *)
(* accountBalance as of the last render.                                   *)
(***************************************************************************)
\* currentPositions.some(p => p.symbol === pair.symbol)
SymbolHeld(symbol) == \E i \in 1..Len(positions) : positions[i].symbol = symbol

\* A faulty cooldown: the shorter one for every entry.
EntryCooldownShort(cfg, isQuickReentry) == cfg.reentryCooldownMs

\* Shorter cooldown for a quick re-entry, the normal one otherwise.
EntryCooldown(cfg, isQuickReentry) ==
  IF isQuickReentry /\ cfg.quickReentry THEN cfg.reentryCooldownMs ELSE cfg.cooldownMs

\* Math.max(0.01, Math.round(riskDollars / (stopLossPips * pipDollarValue) * 100) / 100),
\* in hundredths of a lot; accountBalance is in thousandths of a dollar.
EngineLotSize(accountBalance, symbol) ==
  Max(MinLot, RoundDiv(accountBalance * RiskPercent,
                       1000 * StopLossPips * PipDollarValue(symbol)))

\* The position tryOpenTrade builds on a signal for the pair.
NewPosition(id, symbol, signal, accountBalance) ==
  LET pipVal == PipValue(symbol)
      slDistance == StopLossPips * pipVal
      tpDistance == TakeProfitPips * pipVal
      price == IF signal = "BUY" THEN pairs[symbol].ask ELSE pairs[symbol].bid
      stopLoss == IF signal = "BUY" THEN price - slDistance ELSE price + slDistance
      takeProfit == IF signal = "BUY" THEN price + tpDistance ELSE price - tpDistance
  IN [ id |-> id, origin |-> "auto", symbol |-> symbol, type |-> signal,
       volume |-> Min(EngineLotSize(accountBalance, symbol), MaxEngineLot),
       openPrice |-> price, currentPrice |-> price,
       stopLoss |-> roundToSymbol(symbol, stopLoss),
       takeProfit |-> roundToSymbol(symbol, takeProfit) ]

\* The tracker tryOpenTrade stores for a new position.
NewTracker(position) ==
  [ stopLoss |-> position.stopLoss, takeProfit |-> position.takeProfit,
    initialStopLoss |-> position.stopLoss, peakProfit |-> 0,
    peakPrice |-> position.openPrice ]

\* The body of the scan loop once a signal is found: tracker, order, timer, log.
OpenTrade(e, symbol, signal, now, isQuickReentry) ==
  LET position == NewPosition(e.nextId, symbol, signal, balance)
      e1 == [e EXCEPT !.trackers = MapSet(@, position.id, NewTracker(position)),
                      !.nextId = @ + 1]
      e2 == onPlaceOrder(e1, position)
      e3 == [e2 EXCEPT !.lastTradeTime = now, !.opened = TRUE]
  IN addLog(e3, LogEntry(IF isQuickReentry THEN "QUICK_REENTRY" ELSE "OPEN",
                         symbol, signal, position.openPrice, 0))

RECURSIVE ScanPairs(_, _, _, _, _, _)
ScanPairs(e, cfg, now, isQuickReentry, sigs, i) ==
  IF i > Len(Pairs) THEN e
  ELSE IF Len(positions) >= cfg.maxOpenTrades THEN e
  ELSE IF SymbolHeld(Pairs[i]) THEN ScanPairs(e, cfg, now, isQuickReentry, sigs, i + 1)
  ELSE LET e1 == getSignal(e, Pairs[i])
       IN IF sigs[Pairs[i]].signal = "NONE"
          THEN ScanPairs(e1, cfg, now, isQuickReentry, sigs, i + 1)
          ELSE OpenTrade(e1, Pairs[i], sigs[Pairs[i]].signal, now, isQuickReentry)

tryOpenTrade(e, cfg, now, isQuickReentry, sigs) ==
  IF Len(positions) >= cfg.maxOpenTrades THEN e
  ELSE IF now - e.lastTradeTime < EntryCooldown(cfg, isQuickReentry) THEN e
  ELSE ScanPairs(e, cfg, now, isQuickReentry, sigs, 1)

(***************************************************************************)
(* The position lifecycle: one iteration of the loop of tick over the      *)
(* positions snapshot.                                                     *)
(***************************************************************************)
\* The lifecycle pass runs on every other tick.
\* A faulty schedule: positions are evaluated on every fourth tick.
IsEveryFourthTick(t) == t % (2 * LifecycleEvery) = 0

\* tickRef.current % 2 === 0
IsEvaluationTick(t) == t % LifecycleEvery = 0

\* Tracker created on the first evaluation of a position that has none.
LazyTracker(pos) ==
  [ stopLoss |-> pos.stopLoss, takeProfit |-> pos.takeProfit,
    initialStopLoss |-> pos.stopLoss, peakProfit |-> 0,
    peakPrice |-> pos.openPrice ]

CanTrack(pos) == pos.stopLoss # Undef /\ pos.takeProfit # Undef

isTPHit(pos, tracker) ==
  IF pos.type = "BUY" THEN pos.currentPrice >= tracker.takeProfit
  ELSE pos.currentPrice <= tracker.takeProfit

\* A faulty stop check: the stop is hit only beyond the level.
isSLHitBeyond(pos, tracker) ==
  IF pos.type = "BUY" THEN pos.currentPrice < tracker.stopLoss
  ELSE pos.currentPrice > tracker.stopLoss

isSLHit(pos, tracker) ==
  IF pos.type = "BUY" THEN pos.currentPrice <= tracker.stopLoss
  ELSE pos.currentPrice >= tracker.stopLoss

\* Bookkeeping shared by every exit of tick: log, trade result, tracker and
\* trailing peak deleted, removal requested.
ExitBookkeeping(e, pos, profit, action) ==
  LET e1 == addLog(e, LogEntry(action, pos.symbol, pos.type, pos.currentPrice, profit))
      e2 == RecordFor(e1, pos.id, profit)
      e3 == DeleteTracking(e2, pos.id)
  IN onClosePosition(e3, pos.id)

QuickReentry(e, cfg, now, sigs) ==
  IF cfg.quickReentry THEN tryOpenTrade(e, cfg, now, TRUE, sigs) ELSE e

\* 1. Take profit.
TakeProfitExit(e, pos, profit, cfg, now, sigs) ==
  LET e1 == [e EXCEPT !.wins = @ + 1, !.lastWinTime = now]
      e2 == ExitBookkeeping(e1, pos, profit, "TP_HIT")
  IN QuickReentry(Mark(e2, "TP"), cfg, now, sigs)

\* 2. Stop loss.  maxLoss = slDistancePips * pipDollarValue * pos.volume.
MaxLoss(pos) == StopLossPips * PipDollarValue(pos.symbol) * pos.volume * 10

\* The two sides of lossPercent <= smartLossMaxLossPercent are equal as real
\* numbers.  The program compares IEEE doubles, and rounding decides such a
\* comparison: for entry 1.1000 and price 1.0990 (1.0990 - 1.1000) / 0.0001 is
\* -10.000000000001119 and lossPercent 50.0000000000056.
LossTie(pos, profit) ==
  MaxLoss(pos) > 0 /\ Abs(profit) * 100 = SmartLossMaxLossPercent * MaxLoss(pos)

\* lossPercent <= smartLossMaxLossPercent, where
\* lossPercent = maxLoss > 0 ? |profit| / maxLoss * 100 : 100; tie is the
\* outcome of the comparison when the two sides are equal as real numbers.
LossRecoverable(pos, profit, tie) ==
  IF MaxLoss(pos) > 0
  THEN IF LossTie(pos, profit) THEN tie
       ELSE Abs(profit) * 100 < SmartLossMaxLossPercent * MaxLoss(pos)
  ELSE 100 <= SmartLossMaxLossPercent

\* analyzeMarketForContinuation is called by the stop-loss check.
RecoveryAsked(e, pos, profit, cfg, tie) ==
  /\ cfg.smartLossRecovery
  /\ LossRecoverable(pos, profit, tie)
  /\ HasPair(pos.symbol)
  /\ EnoughCandles(e, pos.symbol)

\* The stop-loss check keeps the trade open.
RecoveryHolds(e, pos, profit, cfg, analysis, tie) ==
  /\ RecoveryAsked(e, pos, profit, cfg, tie)
  /\ analysis.willContinue
  /\ analysis.confidence >= SmartLossRecoveryConfidence

\* A faulty hold: the hold is logged, the stop stays.
RecoveryHoldStopKept(e, pos, profit) ==
  Mark(addLog(e, LogEntry("SIGNAL", pos.symbol, pos.type, pos.currentPrice, profit)),
       "SL_HOLD")

\* tracker.stopLoss = pos.openPrice, and the SIGNAL log.
RecoveryHold(e, pos, profit) ==
  LET e1 == [e EXCEPT !.trackers[pos.id].stopLoss = pos.openPrice]
  IN Mark(addLog(e1, LogEntry("SIGNAL", pos.symbol, pos.type, pos.currentPrice, profit)),
          "SL_HOLD")

StopLossExit(e, pos, profit) ==
  Mark(ExitBookkeeping([e EXCEPT !.wins = 0], pos, profit, "SL_HIT"), "SL_CLOSE")

\* if (isSLHit) { ... }: the hold does not leave the iteration.
StopLossCheck(e, pos, profit, cfg, in) ==
  LET e1 == [e EXCEPT !.asked = RecoveryAsked(e, pos, profit, cfg, in.tieLoss)]
  IN IF RecoveryHolds(e, pos, profit, cfg, in.recover, in.tieLoss)
     THEN RecoveryHold(e1, pos, profit)
     ELSE StopLossExit(e1, pos, profit)

\* 3. Signal flip.
StrongFlip(pos, sig) ==
  /\ sig.signal # "NONE"
  /\ sig.confidence >= MinStrategyConfidence
  /\ \/ pos.type = "BUY" /\ sig.signal = "SELL"
     \/ pos.type = "SELL" /\ sig.signal = "BUY"

FlipExit(e, pos, profit, cfg, now, sigs) ==
  QuickReentry(Mark(ExitBookkeeping(e, pos, profit, "CLOSE"), "FLIP"), cfg, now, sigs)

\* 4. Trailing stop.
TrailDistance(pos) == TrailingStopPips * PipValue(pos.symbol)

Improved(pos, currentBest) ==
  IF pos.type = "BUY" THEN pos.currentPrice > currentBest
  ELSE pos.currentPrice < currentBest

TrailCandidate(pos) ==
  IF pos.type = "BUY" THEN pos.currentPrice - TrailDistance(pos)
  ELSE pos.currentPrice + TrailDistance(pos)

\* A faulty trailing guard: every recomputation is written.
shouldUpdateAlways(pos, newSL, stopLoss) == TRUE

shouldUpdate(pos, newSL, stopLoss) ==
  IF pos.type = "BUY" THEN newSL > stopLoss ELSE newSL < stopLoss

TrailingStop(e, pos, profit, cfg) ==
  IF ~(cfg.trailingStop /\ profit > 0) THEN e
  ELSE IF ~MapHas(e.best, pos.id)
       THEN Mark([e EXCEPT !.best = MapSet(@, pos.id, pos.currentPrice)], "BEST")
  ELSE IF ~Improved(pos, e.best[pos.id]) THEN e
  ELSE LET e1 == Mark([e EXCEPT !.best = MapSet(@, pos.id, pos.currentPrice)], "BEST")
           newSL == TrailCandidate(pos)
       IN IF ~shouldUpdate(pos, newSL, e1.trackers[pos.id].stopLoss) THEN e1
          ELSE LET e2 == [e1 EXCEPT !.trackers[pos.id].stopLoss = RoundTo(newSL, TrailGrid)]
               IN Mark(addLog(e2, LogEntry("TRAILING", pos.symbol, pos.type,
                                           pos.currentPrice, profit)), "TRAIL")

\* 5. Smart cash-out.
UpdatePeak(e, pos, profit) ==
  IF profit > e.trackers[pos.id].peakProfit
  THEN [e EXCEPT !.trackers[pos.id].peakProfit = profit,
                 !.trackers[pos.id].peakPrice = pos.currentPrice]
  ELSE e

\* The two sides of retracePercent >= smartCashOutRetracePercent are equal as
\* real numbers: rounding of the doubles decides the comparison.
RetraceTie(tracker, profit) ==
  /\ tracker.peakProfit > 0
  /\ (tracker.peakProfit - profit) * 100 = SmartCashOutRetracePercent * tracker.peakProfit

\* retracePercent >= smartCashOutRetracePercent, where
\* retracePercent = (peakProfit - profit) / peakProfit * 100.
Retraced(tracker, profit, tie) ==
  IF RetraceTie(tracker, profit) THEN tie
  ELSE (tracker.peakProfit - profit) * 100 > SmartCashOutRetracePercent * tracker.peakProfit

\* analyzeMarketForContinuation is called by the smart cash-out.
CashOutAsked(e, pos, profit, tie) ==
  /\ Retraced(e.trackers[pos.id], profit, tie)
  /\ HasPair(pos.symbol)
  /\ EnoughCandles(e, pos.symbol)

\* A faulty cash-out: it closes only on a verdict of confidence 90 or more.
CashOutClosesStrict(e, pos, profit, analysis, tie) ==
  /\ CashOutAsked(e, pos, profit, tie)
  /\ ~analysis.willContinue
  /\ analysis.confidence >= 90

CashOutCloses(e, pos, profit, analysis, tie) ==
  /\ Retraced(e.trackers[pos.id], profit, tie)
  /\ HasPair(pos.symbol)
  /\ EnoughCandles(e, pos.symbol)
  /\ ~analysis.willContinue
  /\ analysis.confidence >= SmartCashOutConfidence

SmartCashOut(e, pos, profit, cfg, now, analysis, sigs, tie) ==
  IF ~(cfg.smartCashOut /\ profit > SmartCashOutMinProfit) THEN e
  ELSE LET e1 == UpdatePeak(e, pos, profit)
           e2 == [e1 EXCEPT !.cashAsked = CashOutAsked(e1, pos, profit, tie)]
       IN IF CashOutCloses(e2, pos, profit, analysis, tie)
          THEN QuickReentry(Mark(ExitBookkeeping(e2, pos, profit, "CLOSE"), "CASHOUT"),
                            cfg, now, sigs)
          ELSE e2

\* Checks 3 to 5, for a position that the TP and SL checks did not close.
AfterStops(e, pos, profit, cfg, now, in) ==
  LET flips == profit > 0 /\ HasPair(pos.symbol)
      e1 == IF flips THEN getSignal(e, pos.symbol) ELSE e
  IN IF flips /\ StrongFlip(pos, in.flip)
     THEN FlipExit(e1, pos, profit, cfg, now, in.sigs)
     ELSE SmartCashOut(TrailingStop(e1, pos, profit, cfg), pos, profit, cfg, now,
                       in.cash, in.sigs, in.tieRetrace)

\* One iteration of the loop: in = [recover, flip, cash, sigs, tieLoss,
\* tieRetrace], the verdicts the iteration may ask for and the outcomes of its
\* comparisons of equal reals.
EvalPosition(e, pos, cfg, now, in) ==
  LET profit == calculateProfit(pos, pos.currentPrice)
      e1 == IF ~MapHas(e.trackers, pos.id) /\ CanTrack(pos)
            THEN [e EXCEPT !.trackers = MapSet(@, pos.id, LazyTracker(pos))]
            ELSE e
  IN IF ~MapHas(e1.trackers, pos.id) THEN e1
     ELSE IF isTPHit(pos, e1.trackers[pos.id])
          THEN TakeProfitExit(e1, pos, profit, cfg, now, in.sigs)
     ELSE IF isSLHit(pos, e1.trackers[pos.id])
          THEN LET e2 == StopLossCheck(e1, pos, profit, cfg, in)
               IN IF "SL_CLOSE" \in e2.applied THEN e2
                  ELSE AfterStops(e2, pos, profit, cfg, now, in)
     ELSE AfterStops(e1, pos, profit, cfg, now, in)


(***************************************************************************)
(* The host page: quotes, the position store, the account balance.         *)
(***************************************************************************)
Quote(symbol, bid) == [bid |-> bid, ask |-> bid + Spread]

\* The price update loop's updater: currentPrice from the new quotes.
Reprice(pos, quotes) ==
  [pos EXCEPT !.currentPrice =
     IF pos.type = "BUY" THEN quotes[pos.symbol].bid ELSE quotes[pos.symbol].ask]

RepriceAll(ps, quotes) == [i \in 1..Len(ps) |-> Reprice(ps[i], quotes)]

\* pos.profit as the host keeps it: rounded to cents.
HostProfit(pos) == RoundTo(calculateProfit(pos, pos.currentPrice), 10)

Without(ps, id) == SelectSeq(ps, LAMBDA p : p.id # id)
Holds(ps, id) == \E i \in 1..Len(ps) : ps[i].id = id
Find(ps, id) == ps[CHOOSE i \in 1..Len(ps) : ps[i].id = id]

\* handlePlaceOrder / handleClosePosition as state updaters on the store
\* st = [positions, balance].
handlePlaceOrder(st, position) ==
  [st EXCEPT !.positions = Append(@, position)]

handleClosePosition(st, id) ==
  IF Holds(st.positions, id)
  THEN [ positions |-> Without(st.positions, id),
         balance |-> st.balance + HostProfit(Find(st.positions, id)) ]
  ELSE st

RECURSIVE ApplyPending(_, _)
ApplyPending(st, reqs) ==
  IF reqs = << >> THEN st
  ELSE ApplyPending(
         IF Head(reqs).kind = "place"
         THEN handlePlaceOrder(st, Head(reqs).position)
         ELSE handleClosePosition(st, Head(reqs).id),
         Tail(reqs))

\* An order typed in the order panel.
ManualPosition(id, symbol, type, volume, slOffset, tpOffset, quotes) ==
  LET price == IF type = "BUY" THEN quotes[symbol].ask ELSE quotes[symbol].bid
      away(d) == IF type = "BUY" THEN price - d ELSE price + d
  IN [ id |-> id, origin |-> "pos", symbol |-> symbol, type |-> type,
       volume |-> volume, openPrice |-> price, currentPrice |-> price,
       stopLoss |-> IF slOffset = Undef THEN Undef ELSE away(slOffset),
       takeProfit |-> IF tpOffset = Undef THEN Undef ELSE away(-tpOffset) ]

(***************************************************************************)
(* Initial states: the page after WarmTicks ticks of the enabled engine    *)
(* without any signal; daily statistics as loaded from storage.  The store *)
(* is empty, or holds one order the user placed at the opening quotes      *)
(* while the engine was switched off, the feed having moved since, so the  *)
(* engine has no tracker for it yet.                                       *)
(***************************************************************************)
\* DEFAULT_CONFIG switched on, and the same with smart loss recovery off.
Configs ==
  [ enabled : {TRUE}, quickReentry : {TRUE}, trailingStop : {TRUE},
    smartCashOut : {TRUE}, smartLossRecovery : BOOLEAN,
    cooldownMs : {CooldownMs}, reentryCooldownMs : {ReentryCooldownMs},
    maxOpenTrades : {MaxOpenTrades} ]

AfterLosses ==
  [ initDailyStats EXCEPT !.profit = -600000, !.trades = 6, !.losses = 6,
                          !.currentEquity = InitialEquity - 600000,
                          !.sessionTrades = 6, !.lastTradeResult = "loss" ]

LoadedStats == {initDailyStats, AfterLosses}

\* The day's losses well past the daily limit: a winning trade does not bring
\* the day back over it.
DeepLosses ==
  [ initDailyStats EXCEPT !.profit = -700000, !.trades = 7, !.losses = 7,
                          !.currentEquity = InitialEquity - 700000,
                          !.sessionTrades = 7, !.lastTradeResult = "loss" ]

\* The log actions of the terminal transitions.
ExitActions == {"TP_HIT", "SL_HIT", "CLOSE", "MANUAL_CLOSE"}

\* The entries an operation appended to the log (the log stays under its cap
\* within MaxTicks ticks).
Appended(before, after) == SubSeq(after, Len(before) + 1, Len(after))

ExitsLogged(before, after) ==
  Cardinality({i \in 1..Len(Appended(before, after)) :
                 Appended(before, after)[i].action \in ExitActions})

Unasked == [willContinue |-> FALSE, confidence |-> 0]

\* What the last loop iteration or closePosition call did: the position, the
\* checks that acted, the tracker entries deleted, the exit entries logged and
\* the analyzer's verdicts in the stop-loss check and in the smart cash-out,
\* if it was asked.
NoEval ==
  [ id |-> 0, applied |-> {}, removed |-> 0, logged |-> 0, verdict |-> Unasked,
    cash |-> Unasked ]

Report(e, id, verdict, cash) ==
  [ id |-> id, applied |-> e.applied, removed |-> e.removed,
    logged |-> ExitsLogged(logs, e.logs),
    verdict |-> IF e.asked THEN verdict ELSE Unasked,
    cash |-> IF e.cashAsked THEN cash ELSE Unasked ]

OpeningQuotes == [s \in Symbols |-> Quote(s, InitBid[s])]

\* The feed level a stored order of each side has moved to.
MovedBid == [t \in Sides |-> IF t = "BUY" THEN 1100200 ELSE 1099000]

MovedQuotes(type) == [OpeningQuotes EXCEPT !["EURUSD"] = Quote("EURUSD", MovedBid[type])]

StoredPosition(type) ==
  Reprice(ManualPosition(1, "EURUSD", type, 50, 1000, 3000, OpeningQuotes),
          MovedQuotes(type))

\* The store and the quotes the page starts with.
Starts ==
  { [positions |-> << >>, pairs |-> OpeningQuotes] }
  \cup { [positions |-> << StoredPosition(t) >>, pairs |-> MovedQuotes(t)] : t \in Sides }

\* The library variables before any call: no result yet.
NoResult == [signal |-> "", confidence |-> 0, strategy |-> ""]
NoDetections == [n \in KnownStrategies |-> SignalOf(n, "NONE")]
NoCheck == [calls |-> 0, allowed |-> TRUE, reason |-> "", currentEquity |-> 0, hour |-> 0]
NoLot ==
  [ calls |-> 0, accountBalance |-> 0, symbol |-> "", stopLossPips |-> 0,
    currentPrice |-> 0, factor |-> 0, lot |-> 0 ]

(***************************************************************************)
(* analyzeMarketForContinuation: what each of the five indicators reads,   *)
(* the opinion it pushes for the side held, and the decision on the        *)
(* weighted shares.                                                        *)
(***************************************************************************)
RsiReadings == {"above70", "below30", "above50", "below50", "at50"}
MacdReadings == {"positive", "negative", "zero"}
StochReadings == {"above80", "below20", "rising", "falling", "flat"}
TrendReadings == {"up", "down", "mixed"}
BandReadings == {"atUpper", "atLower", "aboveMiddle", "belowMiddle", "atMiddle"}

Opinion(direction, weight) == [direction |-> direction, weight |-> weight]
NoPush == Opinion("none", 0)

\* 1. RSI
RsiOpinion(positionType, rsi) ==
  IF positionType = "BUY"
  THEN CASE rsi = "above70" -> Opinion("bearish", 25)
         [] rsi = "below30" -> Opinion("bullish", 20)
         [] rsi = "above50" -> Opinion("bullish", 15)
         [] OTHER -> NoPush
  ELSE CASE rsi = "below30" -> Opinion("bullish", 25)
         [] rsi = "above70" -> Opinion("bearish", 20)
         [] rsi = "below50" -> Opinion("bearish", 15)
         [] OTHER -> NoPush

\* 2. MACD: signal is 0.9 * macd, so the histogram has the sign of macd.
MacdOpinion(positionType, macd) ==
  CASE macd = "positive" -> Opinion("bullish", 25)
    [] macd = "negative" -> Opinion("bearish", 25)
    [] OTHER -> Opinion("neutral", 10)

\* 3. Stochastic: rising is k > d, falling is k < d, both with 20 <= k <= 80.
StochOpinion(positionType, stoch) ==
  IF positionType = "BUY"
  THEN CASE stoch = "above80" -> Opinion("bearish", 20)
         [] stoch = "below20" -> Opinion("bullish", 15)
         [] stoch = "rising" -> Opinion("bullish", 15)
         [] OTHER -> NoPush
  ELSE CASE stoch = "below20" -> Opinion("bullish", 20)
         [] stoch = "above80" -> Opinion("bearish", 15)
         [] stoch = "falling" -> Opinion("bearish", 15)
         [] OTHER -> NoPush

\* 4. Trend: up is price > ema20 > ema50, down is price < ema20 < ema50.
TrendOpinion(positionType, trend) ==
  CASE trend = "up" -> Opinion("bullish", 25)
    [] trend = "down" -> Opinion("bearish", 25)
    [] OTHER -> Opinion("neutral", 10)

\* 5. Bollinger bands
BandOpinion(positionType, bb) ==
  IF positionType = "BUY"
  THEN CASE bb = "atUpper" -> Opinion("bearish", 20)
         [] bb = "atLower" -> Opinion("bullish", 15)
         [] bb = "aboveMiddle" -> Opinion("bullish", 10)
         [] OTHER -> NoPush
  ELSE CASE bb = "atLower" -> Opinion("bullish", 20)
         [] bb = "atUpper" -> Opinion("bearish", 15)
         [] bb = "belowMiddle" -> Opinion("bearish", 10)
         [] OTHER -> NoPush

\* signals, in the order they are pushed
Signals(o) ==
  << RsiOpinion(o.positionType, o.rsi), MacdOpinion(o.positionType, o.macd),
     StochOpinion(o.positionType, o.stoch), TrendOpinion(o.positionType, o.trend),
     BandOpinion(o.positionType, o.bb) >>

RECURSIVE Score(_, _, _)
Score(signals, direction, i) ==
  IF i > Len(signals) THEN 0
  ELSE (IF signals[i].direction = direction THEN signals[i].weight ELSE 0)
         + Score(signals, direction, i + 1)

RECURSIVE TotalWeight(_, _)
TotalWeight(signals, i) ==
  IF i > Len(signals) THEN 0 ELSE signals[i].weight + TotalWeight(signals, i + 1)

\* Score triples << a, b, totalWeight >> whose shares differ by exactly 20
\* points and for which (a / totalWeight) * 100 > (b / totalWeight) * 100 + 20
\* is nevertheless true in double arithmetic: 40 / 75 * 100 is
\* 53.333333333333336 and 25 / 75 * 100 + 20 is 53.33333333333333.
RoundedApart == { << 40, 25, 75 >> }

\* aPercent > bPercent + 20, on doubles
ExceedsByTwenty(a, b, totalWeight) ==
  \/ 100 * a > 100 * b + 20 * totalWeight
  \/ << a, b, totalWeight >> \in RoundedApart

\* aPercent > bPercent + 20, on the exact shares
ExceedsExactly(a, b, totalWeight) == 100 * a > 100 * b + 20 * totalWeight

\* Math.round(score / totalWeight * 100)
Percent(score, totalWeight) == RoundDiv(100 * score, totalWeight)

Verdict(willContinue, confidence) ==
  [willContinue |-> willContinue, confidence |-> confidence]

\* The decision on the scores; willContinue is boolean | null in the source and
\* one of "true", "false", "null" here.
Declared(positionType, bullishScore, bearishScore, totalWeight) ==
  IF positionType = "BUY"
  THEN IF ExceedsByTwenty(bullishScore, bearishScore, totalWeight)
       THEN Verdict("true", Percent(bullishScore, totalWeight))
       ELSE IF ExceedsByTwenty(bearishScore, bullishScore, totalWeight)
            THEN Verdict("false", Percent(bearishScore, totalWeight))
            ELSE Verdict("null", 0)
  ELSE IF ExceedsByTwenty(bearishScore, bullishScore, totalWeight)
       THEN Verdict("true", Percent(bearishScore, totalWeight))
       ELSE IF ExceedsByTwenty(bullishScore, bearishScore, totalWeight)
            THEN Verdict("false", Percent(bullishScore, totalWeight))
            ELSE Verdict("null", 0)

analyzeMarketForContinuation(o) ==
  LET signals == Signals(o)
      declared == Declared(o.positionType, Score(signals, "bullish", 1),
                           Score(signals, "bearish", 1), TotalWeight(signals, 1))
  IN  IF declared.willContinue = "null" THEN Verdict("true", 50) ELSE declared

NoOpinions ==
  [positionType |-> "", rsi |-> "", macd |-> "", stoch |-> "", trend |-> "", bb |-> ""]
NotAnalysed == Verdict("", 0)

AggregatorAtRest ==
  /\ strategies = << >>
  /\ detections = NoDetections
  /\ signalResult = NoResult

TrendAtRest ==
  /\ closes = << >>
  /\ trendSignal = NoResult
  /\ breakoutSignal = NoResult

AnalyzerAtRest ==
  /\ opinions = NoOpinions
  /\ continuation = NotAnalysed

CandlesAtRest ==
  /\ series = << >>
  /\ feed = << >>

\* The risk manager as the page uses it: the engine's configuration, one day.
RiskAtRest ==
  /\ riskConfig = DEFAULT_RISK_CONFIG
  /\ today = 0
  /\ lossRun = 0
  /\ riskVerdict = NoCheck
  /\ lotSize = NoLot

\* The page after the hook mounted, whatever configuration loadConfig returned.
Mounted ==
  /\ AggregatorAtRest
  /\ TrendAtRest
  /\ RiskAtRest
  /\ AnalyzerAtRest
  /\ CandlesAtRest
  /\ logs = << >>
  /\ lastTradeTime = 0
  /\ lastWinTime = 0
  /\ consecutiveWins = 0
  /\ positionTrackers = EmptyMap
  /\ trailingBest = EmptyMap
  /\ tickRef = WarmTicks
  /\ candleSeries = [s \in Symbols |-> WarmTicks \div ScanEvery]
  /\ clock = StartTime + WarmTicks * IntervalMs
  /\ risk \in LoadedStats \cup {DeepLosses}
  /\ balance = InitialBalance + risk.profit
  /\ \E start \in Starts :
       /\ positions = start.positions
       /\ pairs = start.pairs
       /\ newPairs = start.pairs
       /\ nextId = Len(start.positions) + 1
  /\ pending = << >>
  /\ pc = "idle"
  /\ idx = 1
  /\ riskAllowed = "none"
  /\ lastEval = NoEval
  /\ recorded = EmptyMap
  /\ fired = 0
  /\ toggles = 0

Init ==
  /\ config \in Configs
  /\ Mounted
  /\ risk \in LoadedStats

\* The engine's working state written back.
Commit(e) ==
  /\ positionTrackers' = e.trackers
  /\ trailingBest' = e.best
  /\ logs' = e.logs
  /\ lastTradeTime' = e.lastTradeTime
  /\ lastWinTime' = e.lastWinTime
  /\ consecutiveWins' = e.wins
  /\ candleSeries' = e.candles
  /\ risk' = e.risk
  /\ pending' = e.pending
  /\ recorded' = e.recorded
  /\ nextId' = e.nextId

engineVars ==
  << logs, lastTradeTime, lastWinTime, consecutiveWins, positionTrackers,
     trailingBest, candleSeries, risk, pending, recorded, nextId >>

(***************************************************************************)
(* Actions of the user.                                                    *)
(***************************************************************************)
\* toggleEnabled
ToggleEnabled ==
  /\ pc = "idle"
  /\ toggles < MaxToggles
  /\ fired < ToggleTicks
  /\ toggles' = toggles + 1
  /\ config' = [config EXCEPT !.enabled = ~@]
  /\ consecutiveWins' = IF ~config.enabled THEN 0 ELSE consecutiveWins
  /\ UNCHANGED << logs, lastTradeTime, lastWinTime, tickRef, positionTrackers,
                  trailingBest, candleSeries, risk, pairs, positions, balance,
                  pending, newPairs, clock, pc, idx, riskAllowed, lastEval,
                  recorded, nextId, fired >>
  /\ UNCHANGED << aggregatorVars, trendVars, riskVars, analyzerVars, candleVars >>

\* The order panel's handleOrder: the position goes straight to the store.
PlaceManualOrder ==
  /\ pc = "idle"
  /\ nextId <= Min(MaxPositions, MaxManualOrders)
  /\ fired < ManualOrderTicks
  /\ \E symbol \in ManualSymbols, type \in Sides, volume \in ManualVolumes,
        slOffset \in ManualStopOffsets, tpOffset \in ManualTargetOffsets :
       positions' = Append(positions,
                           ManualPosition(nextId, symbol, type, volume, slOffset, tpOffset, pairs))
  /\ nextId' = nextId + 1
  /\ UNCHANGED << config, logs, lastTradeTime, lastWinTime, tickRef, consecutiveWins,
                  positionTrackers, trailingBest, candleSeries, risk, pairs, balance,
                  pending, newPairs, clock, pc, idx, riskAllowed, lastEval,
                  recorded, fired, toggles >>
  /\ UNCHANGED << aggregatorVars, trendVars, riskVars, analyzerVars, candleVars >>

\* The positions panel's close button: handleClosePosition on the store,
\* without the engine.
PanelClose ==
  /\ pc = "idle"
  /\ fired < CloseTicks
  /\ \E i \in 1..Len(positions) :
       LET st == handleClosePosition([positions |-> positions, balance |-> balance],
                                     positions[i].id)
       IN /\ positions' = st.positions
          /\ balance' = st.balance
  /\ UNCHANGED << config, logs, lastTradeTime, lastWinTime, tickRef, consecutiveWins,
                  positionTrackers, trailingBest, candleSeries, risk, pairs,
                  pending, newPairs, clock, pc, idx, riskAllowed, lastEval,
                  recorded, nextId, fired, toggles >>
  /\ UNCHANGED << aggregatorVars, trendVars, riskVars, analyzerVars, candleVars >>

\* The engine's closePosition(positionId, positions).
closePositionEngine(e, positionId, ps) ==
  LET e1 == IF Holds(ps, positionId)
            THEN LET position == Find(ps, positionId)
                     profit == calculateProfit(position, position.currentPrice)
                 IN RecordFor(addLog(e, LogEntry("MANUAL_CLOSE", position.symbol,
                                                 position.type, position.currentPrice,
                                                 profit)),
                              positionId, profit)
            ELSE e
  IN onClosePosition(DeleteTracking(e1, positionId), positionId)

\* closePosition found the position in the array it was given.
ManualMark(e, positionId, ps) == IF Holds(ps, positionId) THEN Mark(e, "MANUAL") ELSE e

ClosePosition ==
  /\ pc = "idle"
  /\ fired < CloseTicks
  /\ \E positionId \in 1..(nextId - 1) :
       LET e == ManualMark(closePositionEngine(EngineState, positionId, positions),
                           positionId, positions)
           st == ApplyPending([positions |-> positions, balance |-> balance], e.pending)
       IN /\ Commit([e EXCEPT !.pending = << >>])
          /\ positions' = st.positions
          /\ balance' = st.balance
          /\ lastEval' = Report(e, positionId, Unasked, Unasked)
  /\ UNCHANGED << config, tickRef, pairs, newPairs, clock, pc, idx, riskAllowed,
                  fired, toggles >>
  /\ UNCHANGED << aggregatorVars, trendVars, riskVars, analyzerVars, candleVars >>


(***************************************************************************)
(* The interval callback of the host: new quotes, the price updater        *)
(* queued, then tick() on the closure of the last render.                  *)
(***************************************************************************)
NoSignals == [s \in Symbols |-> [signal |-> "NONE", confidence |-> 0]]
NoAnalysis == [willContinue |-> TRUE, confidence |-> 50]
NoSignal == [signal |-> "NONE", confidence |-> 0]

\* tryOpenTrade gets as far as its scan loop.
ScanReached(e, cfg, now, isQuickReentry) ==
  /\ Len(positions) < cfg.maxOpenTrades
  /\ now - e.lastTradeTime >= EntryCooldown(cfg, isQuickReentry)

\* The scan asks getSignal for the pairs without a position, in order, up to
\* the first pair with a signal: sigs gives a verdict to no other pair.
ScanReads(sigs) ==
  \A i \in 1..Len(Pairs) :
    (\/ SymbolHeld(Pairs[i])
     \/ \E j \in 1..(i - 1) : ~SymbolHeld(Pairs[j]) /\ sigs[Pairs[j]].signal # "NONE")
      => sigs[Pairs[i]] = NoSignal

\* The verdicts an entry scan may read; none once the ids of the model are used up.
ScanInputs(e, consulted) ==
  IF consulted /\ e.nextId <= MaxPositions
  THEN {sigs \in [Symbols -> SignalOutcomes] : ScanReads(sigs)}
  ELSE {NoSignals}

\* A faulty tick: the counter advances before the enabled check.
TickCounterFirst(cfg, t) == t + 1

\* tickRef.current++ happens after the enabled check.
TickCounter(cfg, t) == IF cfg.enabled THEN t + 1 ELSE t

\* A faulty tick: a denial of the risk gate skips the lifecycle loop too.
AfterRiskGate(cfg, t, ps) ==
  IF ~cfg.enabled THEN "render"
  ELSE IF IsEvaluationTick(t) /\ ps # << >>
          /\ canTrade(riskConfig, risk, balance, HourOf(clock)).allowed
       THEN "lifecycle"
       ELSE "risk"

\* Where tick goes after `if (!config.enabled) return` and the counter: into
\* the lifecycle loop on an even counter, else on to the risk gate.
AfterEnabledCheck(cfg, t, ps) ==
  IF ~cfg.enabled THEN "render"
  ELSE IF IsEvaluationTick(t) /\ ps # << >> THEN "lifecycle"
       ELSE "risk"

\* tick, up to the lifecycle loop.
TickBegin ==
  /\ pc = "idle"
  /\ fired < MaxTicks
  /\ fired' = fired + 1
  /\ clock' = clock + IntervalMs
  /\ \E bids \in [Symbols -> UNION {BidLevels[s] : s \in Symbols}] :
       /\ \A s \in Symbols : bids[s] \in BidLevels[s]
       /\ newPairs' = [s \in Symbols |-> Quote(s, bids[s])]
  /\ tickRef' = TickCounter(config, tickRef)
  /\ pc' = AfterEnabledCheck(config, tickRef', positions)
  /\ idx' = 1
  /\ riskAllowed' = "none"
  /\ lastEval' = NoEval
  /\ UNCHANGED << config, logs, lastTradeTime, lastWinTime, consecutiveWins,
                  positionTrackers, trailingBest, candleSeries, risk, pairs,
                  positions, balance, pending, recorded, nextId, toggles >>
  /\ UNCHANGED << aggregatorVars, trendVars, riskVars, analyzerVars, candleVars >>

\* One iteration of `for (const pos of positions)`.
LifecycleStep ==
  /\ pc = "lifecycle"
  /\ LET pos == positions[idx]
         profit == calculateProfit(pos, pos.currentPrice)
         tracker == IF MapHas(positionTrackers, pos.id) THEN positionTrackers[pos.id]
                    ELSE LazyTracker(pos)
         stopped == ~isTPHit(pos, tracker) /\ isSLHit(pos, tracker)
     IN \E tieLoss \in (IF config.smartLossRecovery /\ stopped /\ LossTie(pos, profit)
                        THEN BOOLEAN ELSE {FALSE}),
           tieRetrace \in (IF config.smartCashOut /\ profit > SmartCashOutMinProfit
                              /\ RetraceTie(tracker, profit)
                           THEN BOOLEAN ELSE {FALSE}) :
        \E recover \in (IF stopped /\ RecoveryAsked(EngineState, pos, profit, config, tieLoss)
                        THEN AnalysisOutcomes ELSE {NoAnalysis}),
           flip \in (IF profit > 0 THEN SignalOutcomes ELSE {NoSignal}),
           cash \in (IF config.smartCashOut /\ profit > SmartCashOutMinProfit
                     THEN AnalysisOutcomes ELSE {NoAnalysis}) :
          LET in == [recover |-> recover, flip |-> flip, cash |-> cash,
                     sigs |-> NoSignals, tieLoss |-> tieLoss, tieRetrace |-> tieRetrace]
              exits == EvalPosition(EngineState, pos, config, clock, in).applied
                         \cap {"TP", "FLIP", "CASHOUT"} # {}
          IN \E sigs \in ScanInputs(EngineState,
                                    exits /\ config.quickReentry
                                    /\ ScanReached(EngineState, config, clock, TRUE)) :
               LET e == EvalPosition(EngineState, pos, config, clock,
                                     [in EXCEPT !.sigs = sigs])
               IN /\ Commit(e)
                  /\ lastEval' = Report(e, pos.id, recover, cash)
  /\ idx' = idx + 1
  /\ pc' = IF idx >= Len(positions) THEN "risk" ELSE "lifecycle"
  /\ UNCHANGED << config, tickRef, pairs, positions, balance, newPairs, clock,
                  riskAllowed, fired, toggles >>
  /\ UNCHANGED << aggregatorVars, trendVars, riskVars, analyzerVars, candleVars >>

\* tick after the lifecycle loop: the risk gate, then the entry scans.
EntryScan(e, cfg, now, t, sigsQuick, sigsNormal) ==
  LET isRecentWin == now - e.lastWinTime < cfg.reentryCooldownMs
      e1 == IF isRecentWin /\ cfg.quickReentry /\ Len(positions) < cfg.maxOpenTrades
            THEN tryOpenTrade(e, cfg, now, TRUE, sigsQuick)
            ELSE e
  IN IF e1.opened THEN e1
     ELSE IF t % ScanEvery # 0 THEN e1
     ELSE IF Len(positions) >= cfg.maxOpenTrades THEN e1
     ELSE tryOpenTrade(e1, cfg, now, FALSE, sigsNormal)

RiskBlock(e, t) ==
  IF t % RiskLogEvery = 0 THEN addLog(e, LogEntry("RISK_BLOCK", "", "BUY", 0, 0)) ELSE e

RiskStep ==
  /\ pc = "risk"
  /\ LET riskCheck == canTrade(riskConfig, risk, balance, HourOf(clock))
     IN /\ riskAllowed' = IF riskCheck.allowed THEN "allowed" ELSE "denied"
        /\ IF ~riskCheck.allowed
           THEN Commit(RiskBlock(EngineState, tickRef))
           ELSE \E sigsQuick \in ScanInputs(EngineState,
                                            config.quickReentry
                                            /\ clock - lastWinTime < config.reentryCooldownMs
                                            /\ ScanReached(EngineState, config, clock, TRUE)),
                   sigsNormal \in ScanInputs(EngineState,
                                             tickRef % ScanEvery = 0
                                             /\ ScanReached(EngineState, config, clock, FALSE)) :
                  Commit(EntryScan(EngineState, config, clock, tickRef,
                                   sigsQuick, sigsNormal))
  /\ pc' = "render"
  /\ UNCHANGED << config, tickRef, pairs, positions, balance, newPairs, clock, idx,
                  lastEval, fired, toggles >>
  /\ UNCHANGED << aggregatorVars, trendVars, riskVars, analyzerVars, candleVars >>

\* The render after the callback: the queued updaters run in order, first the
\* price updater, then the requests of the tick.
Render ==
  /\ pc = "render"
  /\ LET st == ApplyPending([positions |-> RepriceAll(positions, newPairs),
                             balance |-> balance], pending)
     IN /\ positions' = st.positions
        /\ balance' = st.balance
  /\ pairs' = newPairs
  /\ pending' = << >>
  /\ pc' = "idle"
  /\ UNCHANGED << config, logs, lastTradeTime, lastWinTime, tickRef, consecutiveWins,
                  positionTrackers, trailingBest, candleSeries, risk, newPairs, clock,
                  idx, riskAllowed, lastEval, recorded, nextId, fired, toggles >>
  /\ UNCHANGED << aggregatorVars, trendVars, riskVars, analyzerVars, candleVars >>

Next ==
  \/ ToggleEnabled
  \/ PlaceManualOrder
  \/ PanelClose
  \/ ClosePosition
  \/ TickBegin
  \/ LifecycleStep
  \/ RiskStep
  \/ Render

Spec == Init /\ [][Next]_vars

(***************************************************************************)
(* The page on a day whose loaded statistics deny every trade: canTrade    *)
(* answers "daily loss limit" on every tick, also after a winning close.   *)
(***************************************************************************)
InitRiskDenied ==
  /\ config \in Configs
  /\ Mounted
  /\ risk = DeepLosses

SpecRiskDenied == InitRiskDenied /\ [][Next]_vars

(***************************************************************************)
(* The page with a stored configuration whose normal cooldown is zero:     *)
(* loadConfig spreads whatever localStorage holds over DEFAULT_CONFIG, and  *)
(* updateConfig stores any number it is given.                              *)
(***************************************************************************)
ZeroCooldownConfigs ==
  [ enabled : {TRUE}, quickReentry : {TRUE}, trailingStop : {TRUE},
    smartCashOut : {TRUE}, smartLossRecovery : {TRUE},
    cooldownMs : {0}, reentryCooldownMs : {ReentryCooldownMs},
    maxOpenTrades : {MaxOpenTrades} ]

\* No trade recorded yet today.
InitZeroCooldown ==
  /\ config \in ZeroCooldownConfigs
  /\ Mounted
  /\ risk = initDailyStats

SpecZeroCooldown == InitZeroCooldown /\ [][Next]_vars

(***************************************************************************)
(* The hook with a collaborator that applies its requests late.  The hook  *)
(* hands its additions and removals to onPlaceOrder and onClosePosition    *)
(* and reads the store only through the positions it is rendered with: in  *)
(* RenderDeferred the store has taken the new prices and none of the       *)
(* queued requests yet; a later Render applies them in order.  The page    *)
(* itself (Journal.tsx) always applies them in the render after the tick.  *)
(***************************************************************************)
RenderDeferred ==
  /\ pc = "render"
  /\ pending # << >>
  /\ positions' = RepriceAll(positions, newPairs)
  /\ pairs' = newPairs
  /\ pc' = "idle"
  /\ UNCHANGED << config, logs, lastTradeTime, lastWinTime, tickRef, consecutiveWins,
                  positionTrackers, trailingBest, candleSeries, risk, balance, pending,
                  newPairs, clock, idx, riskAllowed, lastEval, recorded, nextId,
                  fired, toggles >>
  /\ UNCHANGED << aggregatorVars, trendVars, riskVars, analyzerVars, candleVars >>

\* DEFAULT_CONFIG enabled, and the same with one trade at a time and no
\* normal cooldown.
DeferredConfigs ==
  [ enabled : {TRUE}, quickReentry : {TRUE}, trailingStop : {TRUE},
    smartCashOut : {TRUE}, smartLossRecovery : {TRUE},
    cooldownMs : {CooldownMs}, reentryCooldownMs : {ReentryCooldownMs},
    maxOpenTrades : {MaxOpenTrades} ]
  \cup
  [ enabled : {TRUE}, quickReentry : {TRUE}, trailingStop : {TRUE},
    smartCashOut : {TRUE}, smartLossRecovery : {TRUE},
    cooldownMs : {0}, reentryCooldownMs : {ReentryCooldownMs},
    maxOpenTrades : {1} ]

InitDeferredStore ==
  /\ config \in DeferredConfigs
  /\ Mounted
  /\ risk = initDailyStats

NextDeferredStore ==
  \/ TickBegin
  \/ LifecycleStep
  \/ RiskStep
  \/ Render
  \/ RenderDeferred

SpecDeferredStore == InitDeferredStore /\ [][NextDeferredStore]_vars


(***************************************************************************)
(* The page at rest, for the specifications of the library on its own:     *)
(* DEFAULT_CONFIG, an empty store, the opening quotes, nothing running.    *)
(***************************************************************************)
PageAtRest ==
  /\ config = [ enabled |-> FALSE, quickReentry |-> TRUE, trailingStop |-> TRUE,
                smartCashOut |-> TRUE, smartLossRecovery |-> TRUE,
                cooldownMs |-> CooldownMs, reentryCooldownMs |-> ReentryCooldownMs,
                maxOpenTrades |-> MaxOpenTrades ]
  /\ logs = << >>
  /\ lastTradeTime = 0
  /\ lastWinTime = 0
  /\ consecutiveWins = 0
  /\ positionTrackers = EmptyMap
  /\ trailingBest = EmptyMap
  /\ tickRef = 0
  /\ candleSeries = [s \in Symbols |-> 0]
  /\ clock = StartTime
  /\ balance = InitialBalance
  /\ positions = << >>
  /\ pairs = OpeningQuotes
  /\ newPairs = OpeningQuotes
  /\ nextId = 1
  /\ pending = << >>
  /\ pc = "idle"
  /\ idx = 1
  /\ riskAllowed = "none"
  /\ lastEval = NoEval
  /\ recorded = EmptyMap
  /\ fired = 0
  /\ toggles = 0

(***************************************************************************)
(* The aggregator on its own: buildStrategies' list for a configuration,   *)
(* the four detectors' results on some candles, one call.                  *)
(***************************************************************************)
MinConfidences == {60, 70}
SignalKinds == {"NONE", "BUY", "SELL"}

StrategyLists ==
  { [ i \in 1..Len(StrategyNames) |->
        [ name |-> StrategyNames[i], enabled |-> c[i][1], weight |-> 25,
          minConfidence |-> c[i][2] ] ] :
      c \in [1..Len(StrategyNames) -> BOOLEAN \X MinConfidences] }

DetectionMaps ==
  { [n \in KnownStrategies |-> SignalOf(n, v[n])] : v \in [KnownStrategies -> SignalKinds] }

InitAggregator ==
  /\ PageAtRest
  /\ AnalyzerAtRest
  /\ CandlesAtRest
  /\ risk = initDailyStats
  /\ TrendAtRest
  /\ RiskAtRest
  /\ strategies \in StrategyLists
  /\ detections \in DetectionMaps
  /\ signalResult = NoResult

\* getSignal's call detectMultiStrategySignal(candles, buildStrategies()).
DetectSignal ==
  /\ signalResult = NoResult
  /\ signalResult' = detectMultiStrategySignal(strategies, detections)
  /\ UNCHANGED << strategies, detections, pageVars, trendVars, riskVars, analyzerVars, candleVars >>

NextAggregator == DetectSignal

SpecAggregator == InitAggregator /\ [][NextAggregator]_vars

(***************************************************************************)
(* The risk manager on its own, driven by the calls the engine makes       *)
(* (canTrade on a tick, recordTradeResult on a close), by calculateLotSize *)
(* and by the calendar.  riskVerdict and lotSize hold the call just made.  *)
(* The two calls leave the manager as it is, so one of them is looked at   *)
(* between two changes of the manager or of the date.                      *)
(***************************************************************************)
MaxTrades == 4
MaxDays == 1

\* The settings of the engine's configuration that reach the risk manager.
RiskConfigs ==
  { [ DEFAULT_RISK_CONFIG EXCEPT !.useMartingale = m, !.volatilityAdjustment = v,
                                 !.sessionLimit = l,
                                 !.maxTradesPerSession = IF l THEN 3 ELSE @ ] :
      m \in BOOLEAN, v \in BOOLEAN, l \in BOOLEAN }

TradeProfits == {-250000, -249990, 150000}
Equities == {10000000, 8900000}
Hours == {7, 12, 20}
LotBalances == {0, 1000000, 10000000, -5000000}
LotSymbols == {"EURUSD", "USDJPY", "XAUUSD"}
LotStops == {0, 20}
LotPrices ==
  [s \in LotSymbols |-> IF s = "EURUSD" THEN {Undef, 1100000}
                        ELSE IF s = "USDJPY" THEN {Undef, 150000000}
                        ELSE {Undef}]

pageVarsButRisk ==
  << config, logs, lastTradeTime, lastWinTime, tickRef, consecutiveWins,
     positionTrackers, trailingBest, candleSeries, pairs, positions,
     balance, pending, newPairs, clock, pc, idx, riskAllowed, lastEval,
     recorded, nextId, fired, toggles >>

\* The constructor: loadDailyStats found nothing stored for today.
InitRisk ==
  /\ PageAtRest
  /\ AnalyzerAtRest
  /\ CandlesAtRest
  /\ AggregatorAtRest
  /\ TrendAtRest
  /\ riskConfig \in RiskConfigs
  /\ today = 0
  /\ risk = initDailyStatsOn(today)
  /\ lossRun = 0
  /\ riskVerdict = NoCheck
  /\ lotSize = NoLot

\* riskManager.canTrade(accountBalance), as tick calls it.
CanTradeCall ==
  /\ riskVerdict = NoCheck /\ lotSize = NoLot
  /\ \E currentEquity \in Equities, hour \in Hours :
       LET riskCheck == canTrade(riskConfig, risk, currentEquity, hour)
       IN riskVerdict' = [ calls |-> 1, allowed |-> riskCheck.allowed,
                           reason |-> riskCheck.reason,
                           currentEquity |-> currentEquity, hour |-> hour ]
  /\ UNCHANGED << riskConfig, risk, today, lossRun, lotSize, pageVarsButRisk,
                  aggregatorVars, trendVars, analyzerVars, candleVars >>

\* riskManager.recordTradeResult(profit), as every close of the engine calls it.
RecordTradeResult ==
  /\ risk.trades < MaxTrades
  /\ \E profit \in TradeProfits :
       /\ risk' = recordTradeResult(riskConfig, risk, profit)
       /\ lossRun' = IF profit > 0 THEN 0 ELSE lossRun + 1
  /\ riskVerdict' = NoCheck
  /\ lotSize' = NoLot
  /\ UNCHANGED << riskConfig, today, pageVarsButRisk, aggregatorVars, trendVars, analyzerVars, candleVars >>

\* riskManager.calculateLotSize(accountBalance, symbol, stopLossPips, currentPrice)
CalculateLotSize ==
  /\ riskVerdict = NoCheck /\ lotSize = NoLot
  /\ \E accountBalance \in LotBalances, symbol \in LotSymbols, stopLossPips \in LotStops :
       \E currentPrice \in LotPrices[symbol] :
         lotSize' = [ calls |-> 1, accountBalance |-> accountBalance, symbol |-> symbol,
                      stopLossPips |-> stopLossPips, currentPrice |-> currentPrice,
                      factor |-> RiskFactor(riskConfig, risk),
                      lot |-> calculateLotSize(riskConfig, risk, accountBalance, symbol,
                                               stopLossPips, currentPrice) ]
  /\ UNCHANGED << riskConfig, risk, today, lossRun, riskVerdict, pageVarsButRisk,
                  aggregatorVars, trendVars, analyzerVars, candleVars >>

\* Midnight passes while the page stays open: new Date() is on the next day.
\* Nothing in the page calls resetDailyStats or constructs the manager again.
DateRolls ==
  /\ today < MaxDays
  /\ today' = today + 1
  /\ riskVerdict' = NoCheck
  /\ lotSize' = NoLot
  /\ UNCHANGED << riskConfig, risk, lossRun, pageVarsButRisk, aggregatorVars, trendVars, analyzerVars, candleVars >>

NextRisk ==
  \/ CanTradeCall
  \/ RecordTradeResult
  \/ CalculateLotSize
  \/ DateRolls

SpecRisk == InitRisk /\ [][NextRisk]_vars

(***************************************************************************)
(* The trend detector on its own, fed a synthetic series: the first three  *)
(* closes give two moves, and every later candle repeats the move of two   *)
(* candles before, so the series climbs or falls by a fixed step or in a   *)
(* zigzag.  A series that ends where it began two candles earlier is left  *)
(* out: on it the averages meet the price, and rounding of the doubles     *)
(* would decide the comparisons.                                           *)
(***************************************************************************)
MaxCandles == 60

FirstClose == 1100000
Moves == {-1000, -500, 500, 1000}

SeriesStarts ==
  { << FirstClose, FirstClose + m[1], FirstClose + m[1] + m[2] >> :
      m \in {n \in Moves \X Moves : n[1] + n[2] # 0} }

InitTrend ==
  /\ PageAtRest
  /\ AnalyzerAtRest
  /\ CandlesAtRest
  /\ risk = initDailyStats
  /\ AggregatorAtRest
  /\ RiskAtRest
  /\ closes \in SeriesStarts
  /\ trendSignal = NoResult
  /\ breakoutSignal = NoResult

\* The next candle of the series closes.
AppendCandle ==
  /\ Len(closes) < MaxCandles
  /\ closes' = Append(closes, closes[Len(closes)]
                                + (closes[Len(closes) - 1] - closes[Len(closes) - 2]))
  /\ trendSignal' = NoResult
  /\ breakoutSignal' = NoResult
  /\ UNCHANGED << pageVars, aggregatorVars, riskVars, analyzerVars, candleVars >>

\* detectTrendSignal(candles) and detectBreakoutSignal(candles), as
\* detectMultiStrategySignal calls them on the same candles.
DetectTrend ==
  /\ trendSignal = NoResult
  /\ trendSignal' = detectTrendSignal(closes)
  /\ breakoutSignal' = detectBreakoutSignal(closes)
  /\ UNCHANGED << closes, pageVars, aggregatorVars, riskVars, analyzerVars, candleVars >>

NextTrend ==
  \/ AppendCandle
  \/ DetectTrend

SpecTrend == InitTrend /\ [][NextTrend]_vars

(***************************************************************************)
(* analyzeMarketForContinuation on every combination of readings.          *)
(***************************************************************************)
InitAnalyzer ==
  /\ PageAtRest
  /\ risk = initDailyStats
  /\ AggregatorAtRest
  /\ TrendAtRest
  /\ RiskAtRest
  /\ CandlesAtRest
  /\ opinions \in [positionType : Sides, rsi : RsiReadings, macd : MacdReadings,
                   stoch : StochReadings, trend : TrendReadings, bb : BandReadings]
  /\ continuation = NotAnalysed

\* analyzeMarketForContinuation(candles, positionType, peakPrice)
Analyze ==
  /\ continuation = NotAnalysed
  /\ continuation' = analyzeMarketForContinuation(opinions)
  /\ UNCHANGED << opinions, pageVars, aggregatorVars, trendVars, riskVars, candleVars >>

SpecAnalyzer == InitAnalyzer /\ [][Analyze]_vars

(***************************************************************************)
(* addLog on its own: entries of any kind, each with the id addLog gives   *)
(* it, here the number of the call.                                        *)
(***************************************************************************)
MaxLogCalls == 103
LogActions == {"OPEN", "CLOSE", "TP_HIT", "SL_HIT", "QUICK_REENTRY"}

pageVarsButLogs ==
  << config, lastTradeTime, lastWinTime, tickRef, consecutiveWins,
     positionTrackers, trailingBest, candleSeries, risk, pairs, positions,
     balance, pending, newPairs, clock, pc, idx, riskAllowed, lastEval,
     recorded, nextId, fired, toggles >>

InitLog ==
  /\ PageAtRest
  /\ risk = initDailyStats
  /\ AggregatorAtRest
  /\ TrendAtRest
  /\ RiskAtRest
  /\ AnalyzerAtRest
  /\ CandlesAtRest

\* entry = { ...log, id, time }
Entry(log, id) == [id |-> id] @@ log

\* addLog(log): the first entry is of any kind, an OPEN follows every other
\* entry and a CLOSE follows an OPEN.
AddLog ==
  \E action \in LogActions :
    LET id == IF logs = << >> THEN 1 ELSE logs[Len(logs)].id + 1
    IN  /\ id <= MaxLogCalls
        /\ logs # << >> =>
             action = (IF logs[Len(logs)].action = "OPEN" THEN "CLOSE" ELSE "OPEN")
        /\ logs' = addLog([logs |-> logs],
                          Entry(LogEntry(action, "EURUSD", "BUY", 1100000, 0), id)).logs
        /\ UNCHANGED << pageVarsButLogs, aggregatorVars, trendVars, riskVars,
                        analyzerVars, candleVars >>

SpecLog == InitLog /\ [][AddLog]_vars


(***************************************************************************)
(* updateCandlesFromTick on one symbol: the price loop hands it a bid      *)
(* every IntervalMs, from a feed of bids that repeats.                     *)
(***************************************************************************)
MaxCandleCalls == 203
FeedLength == 3
FeedBids == {1099996, 1100004, 1100005, 1100020}

InitCandles ==
  /\ PageAtRest
  /\ risk = initDailyStats
  /\ AggregatorAtRest
  /\ TrendAtRest
  /\ RiskAtRest
  /\ AnalyzerAtRest
  /\ series = << >>
  /\ feed \in [bids : [1 .. FeedLength -> FeedBids], calls : {0}]

\* updateCandlesFromTick(pair)
UpdateCandles ==
  /\ feed.calls < MaxCandleCalls
  /\ series' = Updated(series, "EURUSD",
                       (StartTime + feed.calls * IntervalMs) \div 1000,
                       Head(feed.bids), feed.calls + 1)
  /\ feed' = [bids |-> Append(Tail(feed.bids), Head(feed.bids)),
              calls |-> feed.calls + 1]
  /\ UNCHANGED << pageVars, aggregatorVars, trendVars, riskVars, analyzerVars >>

SpecCandles == InitCandles /\ [][UpdateCandles]_vars




(***************************************************************************)
(* Properties.                                                             *)
(***************************************************************************)
TickExits == {"TP", "SL_CLOSE", "FLIP", "CASHOUT"}
OpenIds == {positions[i].id : i \in 1..Len(positions)}
PlacedIds == 1..(nextId - 1)
Placed(reqs) == \E i \in 1..Len(reqs) : reqs[i].kind = "place"
CloseAsked(reqs, id) == \E i \in 1..Len(reqs) : reqs[i].kind = "close" /\ reqs[i].id = id

\* C1 (as amended): every terminal transition of a position - TP_HIT, SL_HIT,
\* signal-flip close, smart cash-out close in tick, MANUAL_CLOSE in
\* closePosition - appends exactly one log entry of that transition and leaves
\* no tracker for the position; an exit of tick deletes exactly one tracker
\* entry, closePosition deletes the one the position has, if it has one.
C1_ExitDeletesTrackerAndLogsOnce ==
  /\ lastEval.applied \cap TickExits # {}
       => /\ lastEval.removed = 1
          /\ lastEval.logged = 1
          /\ ~MapHas(positionTrackers, lastEval.id)
  /\ "MANUAL" \in lastEval.applied
       => /\ lastEval.removed <= 1
          /\ lastEval.logged = 1
          /\ ~MapHas(positionTrackers, lastEval.id)

\* C1 witness: an exit of tick has deleted its tracker and logged once.
C1_Witness ==
  /\ pc = "risk"
  /\ lastEval.applied \cap TickExits # {}
  /\ lastEval.removed = 1
  /\ lastEval.logged = 1

\* C1 as stated: every terminal transition, closePosition included, removes
\* exactly one tracker entry and appends exactly one log entry.
C1_AsStated ==
  lastEval.applied \cap (TickExits \cup {"MANUAL"}) # {}
    => lastEval.removed = 1 /\ lastEval.logged = 1

\* C2 as stated: between two callbacks every key of positionTrackers and of
\* trailingBest is the id of a position in the store.
C2_TrackedAreOpen ==
  pc = "idle" => (DOMAIN positionTrackers) \cup (DOMAIN trailingBest) \subseteq OpenIds

\* C3 as stated: between two callbacks recordTradeResult has been called
\* exactly once for every position that has left the store, and never for
\* one still in it.
C3_RecordedOncePerClose ==
  pc = "idle" =>
    \A id \in PlacedIds :
      (IF MapHas(recorded, id) THEN recorded[id] ELSE 0) = (IF id \in OpenIds THEN 0 ELSE 1)

\* C4 as stated: on a tick for which canTrade denied, the engine has called
\* onPlaceOrder for no entry, quick re-entry of the lifecycle pass included.
C4_NoEntryWhenDenied ==
  (pc = "render" /\ riskAllowed = "denied") => ~Placed(pending)

\* The position of the running loop iteration and the tracker the iteration
\* works on: the stored one, or the one it creates.
EvalPos == positions[idx]
EvalTracker ==
  IF MapHas(positionTrackers, EvalPos.id) THEN positionTrackers[EvalPos.id]
  ELSE LazyTracker(EvalPos)
Evaluated == MapHas(positionTrackers, EvalPos.id) \/ CanTrack(EvalPos)

\* A BUY position is evaluated at or below its tracked stop, short of its target.
BuyAtStop ==
  /\ pc = "lifecycle"
  /\ EvalPos.type = "BUY"
  /\ Evaluated
  /\ EvalPos.currentPrice <= EvalTracker.stopLoss
  /\ EvalPos.currentPrice < EvalTracker.takeProfit

Trailed == \E i \in (Len(logs) + 1)..Len(logs') : logs'[i].action = "TRAILING"
StopLogged == \E i \in (Len(logs) + 1)..Len(logs') : logs'[i].action = "SL_HIT"

C5_Step ==
  (pc = "lifecycle" /\ ~config.smartLossRecovery) =>
     /\ "SL_HOLD" \notin lastEval'.applied
     /\ BuyAtStop =>
          /\ "SL_CLOSE" \in lastEval'.applied
          /\ StopLogged
          /\ CloseAsked(pending', EvalPos.id)
          /\ ~MapHas(positionTrackers', EvalPos.id)

\* C5 (as amended): with smartLossRecovery disabled, a BUY position is closed
\* with SL_HIT by the first evaluation that finds its price at or below the
\* tracked stop S - an evaluation being an enabled tick with an even tick
\* counter, reading the price of the last render - and no evaluation keeps it
\* open or moves its stop to breakeven.
C5_ClosedByFirstEvaluationAtStop == [][C5_Step]_vars

\* C5 witness: with recovery disabled the stop-loss check closed a BUY position.
C5_Witness ==
  /\ ~config.smartLossRecovery
  /\ pc = "risk"
  /\ "SL_CLOSE" \in lastEval.applied
  /\ Holds(positions, lastEval.id)
  /\ Find(positions, lastEval.id).type = "BUY"

\* C5 as stated: with the engine enabled and smartLossRecovery disabled, no
\* tracked BUY position is still open after the callback that brought its
\* price to or below its stop S.
C5_AsStated ==
  (pc = "idle" /\ config.enabled /\ toggles = 0 /\ ~config.smartLossRecovery) =>
    \A i \in 1..Len(positions) :
      (positions[i].type = "BUY" /\ MapHas(positionTrackers, positions[i].id))
        => positions[i].currentPrice > positionTrackers[positions[i].id].stopLoss

Favourable == [willContinue |-> TRUE, confidence |-> 90]

\* The loss is strictly within smartLossMaxLossPercent of the loss that
\* stopLossPips imply for the volume, and the pair has more than 30 candles.
WithinRecoverableLoss ==
  LET profit == calculateProfit(EvalPos, EvalPos.currentPrice)
  IN /\ Abs(profit) * 100 < SmartLossMaxLossPercent * MaxLoss(EvalPos)
     /\ candleSeries[EvalPos.symbol] > MinAnalysisCandles

C6_Step ==
  (config.smartLossRecovery /\ BuyAtStop) =>
     /\ WithinRecoverableLoss => lastEval'.verdict # Unasked
     /\ lastEval'.verdict = Favourable =>
          /\ "SL_HOLD" \in lastEval'.applied
          /\ "SL_CLOSE" \notin lastEval'.applied
          /\ ~StopLogged
          /\ MapHas(positionTrackers', EvalPos.id)
               => positionTrackers'[EvalPos.id].stopLoss = EvalPos.openPrice
          /\ lastEval'.applied \cap {"FLIP", "CASHOUT"} = {}
               => /\ MapHas(positionTrackers', EvalPos.id)
                  /\ ~CloseAsked(pending', EvalPos.id)

\* C6 (as amended): with smartLossRecovery enabled, when a BUY position is
\* evaluated at or below its tracked stop, the analyzer is asked if the loss is
\* strictly within smartLossMaxLossPercent of the loss implied by stopLossPips
\* and the pair has more than 30 candles; when it is asked and returns
\* willContinue = true with confidence 90, the stop-loss check does not close
\* the position and sets the tracked stop to the entry price.
C6_HeldAtBreakevenWhenAnalyzerAsked == [][C6_Step]_vars

\* C6 witness: a BUY position was held on the analyzer's verdict {true, 90},
\* its tracked stop now the entry price.
C6_Witness ==
  /\ config.smartLossRecovery
  /\ pc = "risk"
  /\ "SL_HOLD" \in lastEval.applied
  /\ lastEval.verdict = Favourable
  /\ Holds(positions, lastEval.id)
  /\ Find(positions, lastEval.id).type = "BUY"
  /\ MapHas(positionTrackers, lastEval.id)
  /\ positionTrackers[lastEval.id].stopLoss = Find(positions, lastEval.id).openPrice

C6_StatedStep ==
  (config.smartLossRecovery /\ BuyAtStop /\ EvalPos.openPrice = 1100000
     /\ EvalTracker.stopLoss = 1099000 /\ lastEval'.verdict \in {Favourable, Unasked})
    => /\ "SL_CLOSE" \notin lastEval'.applied
       /\ MapHas(positionTrackers', EvalPos.id)
       /\ positionTrackers'[EvalPos.id].stopLoss = EvalPos.openPrice

\* C6 as stated: with smartLossRecovery enabled and an analyzer that answers
\* {true, 90} whenever it is asked, the BUY position with entry 1.1000 and
\* tracked stop 1.0990, evaluated at or below 1.0990, is not closed and its
\* tracked stop becomes 1.1000.
C6_AsStated == [][C6_StatedStep]_vars

MoreFavourable(type, new, old) == IF type = "BUY" THEN new > old ELSE new < old

C7_Step ==
  /\ \A id \in (DOMAIN positionTrackers) \cap (DOMAIN positionTrackers') :
       (pc # "lifecycle" \/ id # EvalPos.id)
         => positionTrackers'[id].stopLoss = positionTrackers[id].stopLoss
  /\ (pc = "lifecycle" /\ Evaluated /\ MapHas(positionTrackers', EvalPos.id)) =>
       LET old == IF "SL_HOLD" \in lastEval'.applied THEN EvalPos.openPrice
                  ELSE EvalTracker.stopLoss
           new == positionTrackers'[EvalPos.id].stopLoss
       IN new # old => Trailed /\ MoreFavourable(EvalPos.type, new, old)

\* C7: a trailing-stop recomputation replaces the tracked stopLoss only with a
\* strictly more favourable value (higher for BUY, lower for SELL) and
\* otherwise leaves it unchanged: an evaluation leaves the stop at the value
\* the stop-loss check left it, or at a strictly more favourable one written
\* by the trailing stop, and no other step writes the stop of a tracked position.
C7_TrailingOnlyTightens == [][C7_Step]_vars

\* C7 witness: the trailing stop has moved a tracked stop.
C7_Witness ==
  /\ pc = "risk"
  /\ "TRAIL" \in lastEval.applied
  /\ MapHas(positionTrackers, lastEval.id)

C8_Step ==
  \A i \in 1..Len(positions) :
    LET pos == positions[i]
        old == IF MapHas(positionTrackers, pos.id) THEN positionTrackers[pos.id].stopLoss
               ELSE pos.stopLoss
    IN (MapHas(positionTrackers', pos.id) /\ old # Undef) =>
         IF pos.type = "BUY" THEN positionTrackers'[pos.id].stopLoss >= old
         ELSE positionTrackers'[pos.id].stopLoss <= old

\* C8 as stated: no step moves the tracked stop of a position against it: for a
\* BUY the tracked stopLoss never decreases, for a SELL it never increases,
\* whichever check writes it.
C8_StopNeverLoosens == [][C8_Step]_vars

\* C9 as stated: an evaluation in which the TP check or the SL check triggered,
\* a loss-recovery hold included, applies none of signal flip, trailing stop
\* and smart cash-out to the position.
C9_StopChecksEndTheEvaluation ==
  lastEval.applied \cap {"TP", "SL_CLOSE", "SL_HOLD"} # {}
    => lastEval.applied \cap {"FLIP", "BEST", "TRAIL", "CASHOUT"} = {}

C10_Step ==
  (~config.enabled /\ (pc # "idle" \/ fired' # fired)) =>
     /\ UNCHANGED << tickRef, positionTrackers, trailingBest, candleSeries, logs,
                     risk, lastTradeTime, lastWinTime, consecutiveWins, recorded,
                     balance >>
     /\ pending = << >> /\ pending' = << >>
     /\ [i \in 1..Len(positions') |-> positions'[i].id]
          = [i \in 1..Len(positions) |-> positions[i].id]

\* C10: while the engine is disabled a callback of the host changes nothing of
\* the engine: tick counter, positionTrackers, trailingBest, candle buffers,
\* log, risk statistics, lastTradeTime and lastWinTime stay as they are, and no
\* order is placed and no position closed.
C10_DisabledTickIsNoOp == [][C10_Step]_vars

\* C10 witness: a disabled callback ran while the engine tracked an open
\* position whose price had reached its stop.
C10_Witness ==
  /\ ~config.enabled
  /\ pc = "render"
  /\ \E i \in 1..Len(positions) :
       /\ MapHas(positionTrackers, positions[i].id)
       /\ isSLHit(positions[i], positionTrackers[positions[i].id])

(***************************************************************************)
(* Properties of the aggregator.                                           *)
(***************************************************************************)
\* The enabled strategies whose detector returned `side` with a confidence of
\* at least the strategy's minimum.
SurvivingVotes(side) ==
  { i \in 1..Len(strategies) :
      /\ strategies[i].enabled
      /\ detections[strategies[i].name].signal = side
      /\ detections[strategies[i].name].confidence
           >= strategies[i].minConfidence * ConfidenceScale }

RECURSIVE VoteSum(_)
VoteSum(votes) ==
  IF votes = {} THEN 0
  ELSE LET i == CHOOSE v \in votes : TRUE
       IN detections[strategies[i].name].confidence + VoteSum(votes \ {i})

Opposite(side) == IF side = "BUY" THEN "SELL" ELSE "BUY"

\* C11: once detectMultiStrategySignal has returned, the side with strictly
\* more surviving votes is the aggregate signal, and when N >= 1 enabled
\* strategies returned that side with a confidence of at least their minimum
\* and no vote of the other side survived, the aggregate confidence is the
\* arithmetic mean of those N confidences.
C11_MajorityWinsWithMeanConfidence ==
  signalResult # NoResult =>
    \A side \in Sides :
      LET mine == SurvivingVotes(side)
          theirs == SurvivingVotes(Opposite(side))
      IN Cardinality(mine) > Cardinality(theirs) =>
           /\ signalResult.signal = side
           /\ theirs = {} => signalResult.confidence * Cardinality(mine) = VoteSum(mine)

\* C11 witness: three strategies voted BUY, none SELL, and the aggregate is
\* BUY with the mean of three different confidences.
C11_Witness ==
  /\ signalResult.signal = "BUY"
  /\ Cardinality(SurvivingVotes("BUY")) = 3
  /\ SurvivingVotes("SELL") = {}
  /\ \E i, j \in SurvivingVotes("BUY") :
       detections[strategies[i].name].confidence # detections[strategies[j].name].confidence

\* C12: once detectMultiStrategySignal has returned, an equal number of
\* surviving BUY and SELL votes, zero of each included, gives the aggregate
\* NONE with confidence 0.
C12_TieIsNone ==
  (signalResult # NoResult
     /\ Cardinality(SurvivingVotes("BUY")) = Cardinality(SurvivingVotes("SELL")))
    => signalResult.signal = "NONE" /\ signalResult.confidence = 0

\* C12 witness: two BUY votes against two SELL votes ended in NONE.
C12_Witness ==
  /\ signalResult.signal = "NONE"
  /\ Cardinality(SurvivingVotes("BUY")) = 2
  /\ Cardinality(SurvivingVotes("SELL")) = 2

(***************************************************************************)
(* Properties of the risk manager.                                         *)
(***************************************************************************)
\* The drawdown and session rules of canTrade let the call just made pass.
OtherRulesPass ==
  /\ (risk.peakEquity - riskVerdict.currentEquity) * 100
       < riskConfig.maxDrawdownPercent * risk.peakEquity
  /\ riskConfig.sessionLimit =>
       /\ riskVerdict.hour >= riskConfig.sessionStartHour
       /\ riskVerdict.hour < riskConfig.sessionEndHour
       /\ risk.sessionTrades < riskConfig.maxTradesPerSession

\* C13: canTrade denies with the daily-loss reason when the cumulative daily
\* profit is -maxDailyLoss exactly or lower; at -maxDailyLoss + 0.01 (10
\* thousandths of a dollar) or above it does not deny for daily loss, and
\* allows if the drawdown and session rules pass.
C13_DailyLossBoundaryInclusive ==
  riskVerdict.calls = 1 =>
    /\ risk.profit <= -riskConfig.maxDailyLoss
         => ~riskVerdict.allowed /\ riskVerdict.reason = "daily loss"
    /\ risk.profit >= -riskConfig.maxDailyLoss + 10
         => /\ riskVerdict.reason # "daily loss"
            /\ OtherRulesPass => riskVerdict.allowed

\* C13 witness: canTrade denied for daily loss with the cumulative profit at
\* -maxDailyLoss exactly.
C13_Witness ==
  /\ riskVerdict.calls = 1
  /\ risk.profit = -riskConfig.maxDailyLoss
  /\ ~riskVerdict.allowed
  /\ riskVerdict.reason = "daily loss"

\* C14 as stated: the lot size calculateLotSize returns lies in
\* [0.01, symbolMax], symbolMax being 10 lots for XAUUSD and 100 otherwise,
\* for every balance, stop distance, symbol and martingale/volatility setting.
C14_LotWithinLimits ==
  lotSize.calls = 1 =>
    /\ lotSize.lot >= MinLot
    /\ lotSize.lot <= getMaxLotSize(lotSize.symbol)

\* C15 as stated: with martingale enabled, after k >= 1 consecutive losing
\* trades calculateLotSize multiplies the base risk amount by
\* martingaleMultiplier^min(k, maxMartingaleSteps); the step counter stays in
\* [0, maxMartingaleSteps] and is zero after a winning trade.
C15_MartingaleScalesRisk ==
  /\ risk.martingaleStep \in 0..riskConfig.maxMartingaleSteps
  /\ risk.lastTradeResult = "win" => risk.martingaleStep = 0
  /\ (riskConfig.useMartingale /\ lotSize.calls = 1 /\ lossRun >= 1) =>
       lotSize.factor = Power(riskConfig.martingaleMultiplier,
                              Min(lossRun, riskConfig.maxMartingaleSteps))

\* The counts of the daily statistics.
Counts(r) ==
  [ trades |-> r.trades, wins |-> r.wins, losses |-> r.losses, profit |-> r.profit,
    sessionTrades |-> r.sessionTrades ]

\* C16 as stated: the statistics a canTrade call reads are those of the
\* calendar date of the call: after the date has changed they are the reset
\* ones, not the previous date's cumulative profit and trade counts.
C16_StatsAreOfToday ==
  riskVerdict.calls = 1 => Counts(risk) = Counts(resetDailyStats(risk, today))

(***************************************************************************)
(* Properties of the trend detector.                                       *)
(***************************************************************************)
\* Every close of the series is the one before plus step.
MovesBy(step) == \A i \in 2..Len(closes) : closes[i] = closes[i - 1] + step

\* C17 (as amended): on a series of up to 60 candles whose close increases by
\* exactly 0.0005 on every candle the Trend detector yields NONE with
\* confidence 0: from 50 candles on the last close is above EMA20 (by 9.5
\* steps) and EMA20 above EMA50 (which is 24.5 steps below the close), but
\* none of the last 14 changes is a fall, so RSI(14) is 100, outside (40,70).
C17_SteadyRiseGivesNoSignal ==
  (trendSignal # NoResult /\ MovesBy(500)) =>
     /\ trendSignal.signal = "NONE"
     /\ trendSignal.confidence = 0
     /\ Len(closes) >= SlowPeriod =>
          /\ calculateEMA(closes, FastPeriod) = closes[Len(closes)] * EmaScale - 4750 * EmaScale
          /\ calculateEMA(closes, SlowPeriod) = closes[Len(closes)] * EmaScale - 12250 * EmaScale
          /\ calculateRSI(closes, RsiPeriod).losses = 0
          /\ ~RsiBelow(calculateRSI(closes, RsiPeriod), 70)

\* C17 witness: the detector returned NONE on 60 candles rising by 0.0005 each.
C17_Witness ==
  /\ Len(closes) = MaxCandles
  /\ MovesBy(500)
  /\ trendSignal # NoResult
  /\ trendSignal.signal = "NONE"

\* C17 as stated: on the 60-candle series whose close increases by exactly
\* 0.0005 on every candle the Trend detector yields BUY with confidence 75.
C17_AsStated ==
  (trendSignal # NoResult /\ MovesBy(500) /\ Len(closes) = 60) =>
     trendSignal.signal = "BUY" /\ trendSignal.confidence = 75

\* The requests the running step has queued: those of pending' past pending.
QueuedByStep == {i \in 1..Len(pending') : i > Len(pending)}

\* The positions tryOpenTrade handed to onPlaceOrder in the running step.
OpenedByStep ==
  {pending'[i].position : i \in {j \in QueuedByStep : /\ pending'[j].kind = "place"
                                                      /\ pending'[j].position.origin = "auto"}}

\* The lot riskManager.calculateLotSize computes for the entry of position p:
\* the balance tryOpenTrade reads, the symbol, the configured stop distance and
\* the entry price, with the manager as the entry finds it.
RiskManagerLot(p) ==
  calculateLotSize(riskConfig, risk', balance, p.symbol, StopLossPips, p.openPrice)

C18_Step == \A p \in OpenedByStep : p.volume = RiskManagerLot(p)

\* C18 as stated: the volume of every position opened by tryOpenTrade equals
\* the lot size RiskManager.calculateLotSize computes for the same balance,
\* symbol and stop-loss distance.
C18_EngineVolumeIsRiskManagerLot == [][C18_Step]_vars

\* The onPlaceOrder calls of tryOpenTrade among the requests reqs.
EngineOrders(reqs) ==
  {i \in 1..Len(reqs) : reqs[i].kind = "place" /\ reqs[i].position.origin = "auto"}

\* C19 as stated: across the lifecycle pass, the recent-win re-entry attempt
\* and the normal scan onPlaceOrder is called at most once in a single tick,
\* for every configuration including reentryCooldownMs = 0 or cooldownMs = 0.
\* The requests of a tick stay queued until the render that ends it.
C19_AtMostOneOrderPerTick == Cardinality(EngineOrders(pending)) <= 1

\* The log entries of the engine's entries.
EntryLogs(l) == {i \in 1..Len(l) : l[i].action \in {"OPEN", "QUICK_REENTRY"}}

\* The cooldown that applies to the entry the running step has logged last.
ApplicableCooldown ==
  IF logs'[Len(logs')].action = "QUICK_REENTRY" THEN config.reentryCooldownMs
  ELSE config.cooldownMs

\* lastTradeTime is the time of the engine's latest entry (0 before the first
\* one): every entry sets it to the time of the tick and nothing else writes
\* it.  An entry that follows another one is at least the applicable
\* cooldown later.
C20_Step ==
  /\ OpenedByStep # {} =>
       /\ Cardinality(OpenedByStep) = 1
       /\ logs'[Len(logs')].action \in {"OPEN", "QUICK_REENTRY"}
       /\ lastTradeTime' = clock
       /\ EntryLogs(logs) # {} => clock - lastTradeTime >= ApplicableCooldown
  /\ OpenedByStep = {} => lastTradeTime' = lastTradeTime

\* C20 as stated: two consecutive engine entries are never closer in time than
\* the applicable cooldown: a normal entry happens only when at least
\* cooldownMs has elapsed since the engine's previous entry, and a quick
\* re-entry only when at least reentryCooldownMs has elapsed since it.
C20_EntriesKeepCooldown == [][C20_Step]_vars

\* C20 witness: the engine has entered twice, the second time by a quick
\* re-entry in the running tick, once the shorter cooldown had elapsed.
C20_Witness ==
  /\ pc = "render"
  /\ Cardinality(EntryLogs(logs)) = 2
  /\ logs[Len(logs)].action = "QUICK_REENTRY"
  /\ Cardinality(EngineOrders(pending)) = 1
  /\ lastTradeTime = clock

\* The running step applies the queued orders of the engine to the store.
EngineOrdersApplied == EngineOrders(pending) # {} /\ EngineOrders(pending') = {}

C21_Step == EngineOrdersApplied => Len(positions') <= config.maxOpenTrades

\* C21 as stated: after any sequence of ticks the number of open positions
\* never exceeds maxOpenTrades as a result of an engine entry, also when the
\* position store applies earlier placeOrder requests only after later ticks
\* have run.
C21_EngineEntriesKeepCapacity == [][C21_Step]_vars

\* The open positions the engine opened.
EngineOpened == {i \in 1..Len(positions) : positions[i].origin = "auto"}

\* C22 as stated: in every reachable state no two simultaneously open
\* engine-opened positions share a symbol.
C22_OnePositionPerSymbol ==
  \A i, j \in EngineOpened : positions[i].symbol = positions[j].symbol => i = j

Reversal == [willContinue |-> FALSE, confidence |-> 80]

\* A peak profit above smartCashOutMinProfit is on record for the position of
\* the running iteration, and its profit is now below the peak by more than
\* smartCashOutRetracePercent of it.
RetracedFromPeak ==
  /\ pc = "lifecycle"
  /\ MapHas(positionTrackers, EvalPos.id)
  /\ positionTrackers[EvalPos.id].peakProfit > SmartCashOutMinProfit
  /\ (positionTrackers[EvalPos.id].peakProfit - calculateProfit(EvalPos, EvalPos.currentPrice))
       * 100 > SmartCashOutRetracePercent * positionTrackers[EvalPos.id].peakProfit

\* The iteration has closed the position by the smart cash-out: one CLOSE log,
\* the tracker deleted, the removal requested.
CashedOut ==
  /\ "CASHOUT" \in lastEval'.applied
  /\ lastEval'.logged = 1
  /\ logs'[Len(logs')].action \in {"CLOSE", "QUICK_REENTRY"}
  /\ ~MapHas(positionTrackers', EvalPos.id)
  /\ CloseAsked(pending', EvalPos.id)

\* The iteration got as far as the smart cash-out: no earlier check closed
\* the position.
ReachedCashOut == lastEval'.applied \cap {"TP", "SL_CLOSE", "FLIP"} = {}

C23_Step ==
  (config.smartCashOut /\ RetracedFromPeak /\ ReachedCashOut) =>
     LET profit == calculateProfit(EvalPos, EvalPos.currentPrice)
     IN /\ (profit > SmartCashOutMinProfit /\ candleSeries'[EvalPos.symbol] > MinAnalysisCandles)
             => lastEval'.cash # Unasked
        /\ profit <= SmartCashOutMinProfit => lastEval'.cash = Unasked
        /\ lastEval'.cash = Reversal => CashedOut
        /\ lastEval'.cash # Reversal => "CASHOUT" \notin lastEval'.applied

C23_StatedStep ==
  (config.smartCashOut /\ RetracedFromPeak /\ lastEval'.cash \in {Unasked, Reversal})
     => CloseAsked(pending', EvalPos.id)

Favouring(o) ==
  Score(Signals(o), IF o.positionType = "BUY" THEN "bullish" ELSE "bearish", 1)
Opposing(o) ==
  Score(Signals(o), IF o.positionType = "BUY" THEN "bearish" ELSE "bullish", 1)

C25_NoSignalBelowThirtyCandles ==
  (trendSignal # NoResult /\ Len(closes) < 30) =>
     /\ trendSignal.signal = "NONE" /\ trendSignal.confidence = 0
     /\ breakoutSignal.signal = "NONE" /\ breakoutSignal.confidence = 0

\* C26: after any sequence of updateCandlesFromTick calls the buffer holds at
\* most 200 candles, they are the most recently built ones in the order they
\* arrived, every candle has low <= open <= high and low <= close <= high, and
\* the candle times do not decrease.
C26_CandleBuffer ==
  feed # << >> =>
    /\ Len(series) = Min(feed.calls, CandleCap)
    /\ \A i \in 1 .. Len(series) :
         /\ series[i].built = feed.calls - Len(series) + i
         /\ series[i].low <= series[i].open /\ series[i].open <= series[i].high
         /\ series[i].low <= series[i].close /\ series[i].close <= series[i].high
         /\ i < Len(series) => series[i].time <= series[i + 1].time

\* The buffer evicted its oldest candles, holds a candle that moved and two
\* candles of the same second.
C26_Witness ==
  /\ feed # << >>
  /\ feed.calls > CandleCap + 1
  /\ Len(series) = CandleCap
  /\ series[1].built = feed.calls - CandleCap + 1
  /\ \E i \in 1 .. Len(series) : series[i].low < series[i].high
  /\ \E i \in 1 .. Len(series) - 1 : series[i].time < series[i + 1].time

\* The log cap of the specification.
LogLimit == 100

\* addLog kept every entry it did not evict as it was and where it was,
\* relative to the end of the log, and put one entry after them.
KeptInOrder ==
  /\ Len(logs') >= 1
  /\ Len(logs') <= Len(logs) + 1
  /\ \A i \in 1 .. Len(logs') - 1 : logs'[i] = logs[i + Len(logs) + 1 - Len(logs')]

\* C27: after any sequence of addLog calls the log holds at most 100 entries,
\* exactly the most recent ones in the order they were appended, and addLog
\* never modifies or reorders an entry it keeps.
C27_LogKeepsLastHundred ==
  [][ /\ KeptInOrder
      /\ Len(logs') = Min(logs'[Len(logs')].id, LogLimit)
      /\ \A i \in 1 .. Len(logs') :
           logs'[i].id = logs'[Len(logs')].id - Len(logs') + i ]_vars

\* More than 100 entries were added: the log is full and its oldest entry is
\* no longer the first one added.
C27_Witness ==
  /\ Len(logs) = LogLimit
  /\ logs[1].id > 1
  /\ logs[Len(logs)].id = logs[1].id + LogLimit - 1

\* C28: when the store applies a closePosition request only after further
\* ticks have run, the engine performs no second terminal transition for the
\* position: recordTradeResult, which every exit of tick calls next to its log
\* entry and its onClosePosition call, has run at most once for each id.
C28_NoSecondTerminalTransition ==
  \A id \in DOMAIN recorded : recorded[id] <= 1

\* The take-profit the engine tracks for a position: that of its tracker, or
\* the position's own when it has a stop and a target and no tracker yet.
Tracked(pos) == MapHas(positionTrackers, pos.id) \/ CanTrack(pos)
TrackedTakeProfit(pos) ==
  IF MapHas(positionTrackers, pos.id) THEN positionTrackers[pos.id].takeProfit
  ELSE pos.takeProfit
AtTakeProfit(pos) ==
  /\ Tracked(pos)
  /\ IF pos.type = "BUY" THEN pos.currentPrice >= TrackedTakeProfit(pos)
     ELSE pos.currentPrice <= TrackedTakeProfit(pos)
TakeProfitLogged(pos) ==
  \E i \in 1 .. Len(logs) :
    /\ logs[i].action = "TP_HIT"
    /\ logs[i].symbol = pos.symbol
    /\ logs[i].type = pos.type
    /\ logs[i].price = pos.currentPrice

\* At the end of a tick whose counter is even, every position the tick was
\* rendered with whose price is at or beyond its tracked take-profit has been
\* closed with TP_HIT.
C29_ClosedByEvenTick ==
  (pc = "render" /\ config.enabled /\ tickRef % LifecycleEvery = 0) =>
    \A i \in 1 .. Len(positions) :
      AtTakeProfit(positions[i]) =>
        /\ CloseAsked(pending, positions[i].id)
        /\ TakeProfitLogged(positions[i])

\* Every tick of the enabled engine advances the counter by one.
C29_TickStep ==
  (pc = "idle" /\ pc' # "idle" /\ config.enabled) => tickRef' = tickRef + 1

\* C29: while the engine stays enabled, a position that has a tracker (or a
\* stop and a target) and whose price stays at or beyond its tracked
\* take-profit is closed with TP_HIT within at most two ticks: of two
\* consecutive ticks one has an even counter, and that one closes it.
C29_TakeProfitWithinTwoTicks ==
  []C29_ClosedByEvenTick /\ [][C29_TickStep]_vars

\* The tick after an odd one closed a position with TP_HIT at its target.
C29_Witness ==
  /\ pc = "render"
  /\ config.enabled
  /\ tickRef % LifecycleEvery = 0
  /\ \E i \in 1 .. Len(positions) :
       /\ CanTrack(positions[i])
       /\ AtTakeProfit(positions[i])
       /\ CloseAsked(pending, positions[i].id)
       /\ TakeProfitLogged(positions[i])

\* The risk gate of the running tick denied.
Denied == pc = "risk" /\ riskAllowed' = "denied"

\* C30: exit processing does not depend on the risk gate.  When canTrade
\* denies on an evaluation tick, the lifecycle loop of that tick has run: every
\* position at its tracked take-profit has been closed with TP_HIT and the exit
\* of the last evaluation has its close request; the denial leaves the requests,
\* the trackers and the recorded results as the loop left them and requests no
\* entry.
C30_Step ==
  Denied =>
    /\ pending' = pending
    /\ positionTrackers' = positionTrackers
    /\ trailingBest' = trailingBest
    /\ recorded' = recorded
    /\ lastEval' = lastEval
    /\ lastTradeTime' = lastTradeTime
    /\ tickRef % LifecycleEvery = 0 =>
         /\ \A i \in 1 .. Len(positions) :
              AtTakeProfit(positions[i]) =>
                /\ CloseAsked(pending', positions[i].id)
                /\ TakeProfitLogged(positions[i])
         /\ lastEval.applied \cap TickExits # {} => CloseAsked(pending', lastEval.id)
         /\ positions # << >> => lastEval.id = positions[Len(positions)].id

C30_ExitsRunWhenRiskDenies == [][C30_Step]_vars

\* The gate denied on a tick whose lifecycle loop closed a position at its
\* take-profit.
C30_Witness ==
  /\ pc = "render"
  /\ riskAllowed = "denied"
  /\ tickRef % LifecycleEvery = 0
  /\ "TP" \in lastEval.applied
  /\ CloseAsked(pending, lastEval.id)
  /\ \E i \in 1 .. Len(positions) :
       positions[i].id = lastEval.id /\ TakeProfitLogged(positions[i])

====
